---- MODULE Spec2Model ----
(***************************************************************************)
(* Disk-usage-based layer eviction of the pageserver                       *)
(* (pageserver/src/disk_usage_eviction_task.rs).                           *)
(*                                                                         *)
(* Two callers share one State (its mutex): the periodic background loop   *)
(* (disk_usage_eviction_task) and an ad-hoc caller of                      *)
(* disk_usage_eviction_task_iteration_impl (the http handler).  An         *)
(* iteration probes the filesystem, collects and ranks the eviction        *)
(* candidates, plans the prefix to evict (phase 1) and evicts it through a *)
(* JoinSet of tasks (phase 2), racing against the cancellation token.      *)
(***************************************************************************)
EXTENDS Integers, Sequences, FiniteSets, TLC

(***************************************************************************)
(* Bounds of the model.                                                    *)
(***************************************************************************)
\* iterations the periodic loop may start
MaxIterations == 2
\* calls the ad-hoc caller may make
MaxHttpCalls == 1
\* largest file size of a layer
MaxLayerSize == 2
\* largest last-activity timestamp of a layer
MaxTs == 2
\* largest min_resident_size_override of a tenant
MaxOverride == 3
\* by how much the avail_bytes of a Usage may exceed its total_bytes
MaxOverfull == 2

(***************************************************************************)
(* f64 arithmetic of has_pressure: 100.0 * (1.0 - avail / total), truncated*)
(* by `as u64`.  A value is [int, frac]: an integer part and the fraction  *)
(* bits, most significant first; every operation rounds to nearest, ties   *)
(* to even, on 53 significant bits, as IEEE 754 binary64 does.             *)
(***************************************************************************)
F64_MANTISSA_DIGITS == 53

Pow2(n) == IF n = 0 THEN 1 ELSE IF n = 1 THEN 2 ELSE IF n = 2 THEN 4
           ELSE IF n = 3 THEN 8 ELSE IF n = 4 THEN 16 ELSE IF n = 5 THEN 32
           ELSE IF n = 6 THEN 64 ELSE IF n = 7 THEN 128 ELSE 256

\* the n <= 8 bits of the number v < 2^n, and back
BitsOf(v, n) == [i \in 1..n |-> (v \div Pow2(n - i)) % 2]

RECURSIVE ValueOf(_)
ValueOf(bits) ==
    IF bits = <<>> THEN 0
    ELSE 2 * ValueOf(SubSeq(bits, 1, Len(bits) - 1)) + bits[Len(bits)]

\* the first n fraction bits of r / t (0 <= r < t < 2^22) and the remainder
\* left, eight bits of the long division at a time
RECURSIVE DivBits(_, _, _)
DivBits(r, t, n) ==
    IF n <= 8
    THEN [bits |-> BitsOf((r * Pow2(n)) \div t, n), rem |-> (r * Pow2(n)) % t]
    ELSE LET rest == DivBits((r * 256) % t, t, n - 8)
         IN  [bits |-> BitsOf((r * 256) \div t, 8) \o rest.bits, rem |-> rest.rem]

\* zero bits before the first one bit of r / t (0 < r < t)
RECURSIVE LeadZerosDiv(_, _)
LeadZerosDiv(r, t) == IF 2 * r >= t THEN 0 ELSE 1 + LeadZerosDiv(2 * r, t)

\* zero bits before the first one bit
LeadZeros(bits) ==
    LET ones == {i \in 1..Len(bits) : bits[i] = 1}
    IN  IF ones = {} THEN Len(bits)
        ELSE (CHOOSE i \in ones : \A j \in ones : i <= j) - 1

\* bits + one unit in the last place; a carry out of the fraction is int = 1
IncBits(bits) ==
    LET zeros == {i \in 1..Len(bits) : bits[i] = 0}
    IN  IF zeros = {} THEN [int |-> 1, frac |-> [i \in 1..Len(bits) |-> 0]]
        ELSE LET z == CHOOSE i \in zeros : \A j \in zeros : i >= j
             IN  [int  |-> 0,
                  frac |-> [i \in 1..Len(bits) |->
                               IF i < z THEN bits[i] ELSE IF i = z THEN 1 ELSE 0]]

AnyOne(bits, from) == \E i \in from..Len(bits) : bits[i] = 1

\* round to nearest, ties to even: rb is the first dropped bit, sticky the rest
RoundUp(bits, k, rb, sticky) ==
    rb = 1 /\ (sticky \/ (k >= 1 /\ bits[k] = 1))

\* bits rounded to its first k bits
RoundBits(bits, k) ==
    IF k >= Len(bits) THEN [int |-> 0, frac |-> bits]
    ELSE LET kept == SubSeq(bits, 1, k)
         IN  IF RoundUp(bits, k, bits[k + 1], AnyOne(bits, k + 2))
             THEN IncBits(kept)
             ELSE [int |-> 0, frac |-> kept]

\* (a as f64) / (t as f64) for 0 < a < t
F64Div(a, t) ==
    LET n  == LeadZerosDiv(a, t) + F64_MANTISSA_DIGITS
        d  == DivBits(a, t, n)
        rb == IF 2 * d.rem >= t THEN 1 ELSE 0
        st == (2 * d.rem - rb * t) # 0
    IN  IF RoundUp(d.bits, n, rb, st) THEN IncBits(d.bits)
        ELSE [int |-> 0, frac |-> d.bits]

\* 1 - 0.bits, exactly, on the same number of fraction bits
Complement(bits) ==
    LET inv == [i \in 1..Len(bits) |-> 1 - bits[i]]
    IN  IncBits(inv).frac

\* 1.0 - q for 0 <= q <= 1
F64OneMinus(q) ==
    IF q.int >= 1 THEN [int |-> 0, frac |-> <<>>]
    ELSE IF ~AnyOne(q.frac, 1) THEN [int |-> 1, frac |-> <<>>]
    ELSE LET d == Complement(q.frac)
         IN  RoundBits(d, LeadZeros(d) + F64_MANTISSA_DIGITS)

\* m * 0.bits + c units of the last place, exactly (m < 2^16), eight bits
\* at a time from the last
RECURSIVE MulBits(_, _, _)
MulBits(bits, m, c) ==
    IF bits = <<>> THEN [int |-> c, frac |-> <<>>]
    ELSE LET n == Len(bits)
             w == IF n >= 8 THEN 8 ELSE n
             v == m * ValueOf(SubSeq(bits, n - w + 1, n)) + c
             rest == MulBits(SubSeq(bits, 1, n - w), m, v \div Pow2(w))
         IN  [int |-> rest.int, frac |-> rest.frac \o BitsOf(v % Pow2(w), w)]

RECURSIVE BitLen(_)
BitLen(n) == IF n = 0 THEN 0 ELSE 1 + BitLen(n \div 2)

\* ((m as f64) * d) as u64 for 0 <= d <= 1: the product is rounded to 53
\* significant bits, then truncated
F64MulTrunc(m, d) ==
    LET p == MulBits(d.frac, m, 0)
        i == p.int + m * d.int
        k == IF i >= 1 THEN F64_MANTISSA_DIGITS - BitLen(i)
             ELSE LeadZeros(p.frac) + F64_MANTISSA_DIGITS
    IN  IF k >= Len(p.frac) THEN i
        ELSE IF RoundUp(p.frac, k, p.frac[k + 1], AnyOne(p.frac, k + 2))
                /\ \A j \in 1..k : p.frac[j] = 1
             THEN i + 1 ELSE i

\* line 956: the u64 of a Usage.  The values below 2^31 stand as themselves
\* and the values 2^64 - k, k up to 2^31, as -k: u64::MAX is
\* 18446744073709551615
U64_MAX == -1

\* a < b on u64
u64_lt(a, b) == IF (a < 0) = (b < 0) THEN a < b ELSE a >= 0

\* (100.0 * (1.0 - avail as f64 / total as f64)) as u64.  total = 0 gives NaN
\* or -inf and avail > total a negative product: `as u64` makes each of them 0.
\* Of a total_bytes 2^64 - k the f64 is 2^64 for k <= 1024 and 2^64 - 2048 or
\* less for a larger k.  An avail_bytes next to u64::MAX gives a quotient of
\* 1.0 or next to it; a small one a quotient q that 1.0 - q rounds away when
\* q <= 2^-54, which is avail <= 1023, and avail = 1024 under the f64 2^64;
\* a larger one gives 100.0 * (1.0 - 2^-53) or less, which is below 100.
usage_pct_f64(total, avail) ==
    IF total = 0 \/ ~u64_lt(avail, total) THEN 0
    ELSE IF avail = 0 THEN 100
    ELSE IF total < 0
    THEN (IF avail < 0 THEN 0
          ELSE IF avail <= 1023 \/ (avail = 1024 /\ total >= -1024) THEN 100
          ELSE 99)
    ELSE F64MulTrunc(100, F64OneMinus(F64Div(avail, total)))

\* the capacities the filesystem of the model may have
TotalBytesValues == {5, 10}

\* usage_pct_f64 tabulated over the usages the iterations of the model meet
UsagePctPairs ==
    {<<u, usage_pct_f64(u[1], u[2])>> : u \in TotalBytesValues \X (0..24)}

UsagePctTable ==
    [u \in TotalBytesValues \X (0..24) |->
        (CHOOSE r \in UsagePctPairs : r[1] = u)[2]]

usage_pct(total, avail) ==
    IF <<total, avail>> \in DOMAIN UsagePctTable
    THEN UsagePctTable[<<total, avail>>]
    ELSE usage_pct_f64(total, avail)

(***************************************************************************)
(* Option<T>                                                               *)
(***************************************************************************)
NoneOpt == <<>>
Some(x) == <<x>>
IsSome(o) == o # <<>>
Unwrap(o) == o[1]
Option(S) == {NoneOpt} \cup {Some(x) : x \in S}

Max(a, b) == IF a >= b THEN a ELSE b

(***************************************************************************)
(* Tenants, timelines and layers: the collaborators of the engine.         *)
(***************************************************************************)
Callers == {"loop", "http"}

\* tenant::mgr::list_tenants(): the snapshot of the tenant ids
TenantList == <<"A", "B">>
TenantIds == {"A", "B"}
\* Tenant::list_timelines()
TimelinesOf == [A |-> <<"A1", "A2">>, B |-> <<"B1">>]
TimelineIds == {"A1", "A2", "B1"}
\* the layers and the timeline that owns each
LayerIds == {"a", "b", "c", "d", "e"}
\* the layers a-e of the tenants A and B of the example in the doc comment of
\* collect_eviction_candidates, each tenant with its layers in one timeline
DocLayerTimeline ==
    [Aa |-> "A1", Ab |-> "A1", Ac |-> "A1", Ad |-> "A1", Ae |-> "A1",
     Ba |-> "B1", Bb |-> "B1", Bc |-> "B1", Bd |-> "B1", Be |-> "B1"]
DocLayerIds == DOMAIN DocLayerTimeline
LayerTimeline ==
    [a |-> "A1", b |-> "A1", c |-> "A2", d |-> "B1", e |-> "B1"] @@ DocLayerTimeline
TenantOfTimeline == [A1 |-> "A", A2 |-> "A", B1 |-> "B"]

EvictionOrders ==
    {[type |-> "AbsoluteAccessed", highest_layer_count_loses_first |-> FALSE],
     [type |-> "RelativeAccessed", highest_layer_count_loses_first |-> FALSE],
     [type |-> "RelativeAccessed", highest_layer_count_loses_first |-> TRUE]}

\* an order that never lets the highest layer count lose first
highest_layer_count_loses_first_never(order) == FALSE

\* EvictionOrder::highest_layer_count_loses_first
highest_layer_count_loses_first(order) ==
    IF order.type = "AbsoluteAccessed" THEN FALSE
    ELSE order.highest_layer_count_loses_first

VARIABLES
    task_config,    \* DiskUsageEvictionTaskConfig: max_usage_pct, min_avail_bytes, eviction_order
    tenant_conf,    \* per tenant: found by get_tenant, shutting down, min_resident_size_override
    timeline_conf,  \* per timeline: is_active
    layer_conf,     \* per layer: file_size, last_activity_ts
    resident,       \* the layers whose file is on the local disk
    mutex,          \* State::mutex: "free" or the caller holding the guard
    cancelled,      \* the CancellationToken has fired
    pc,             \* per caller: where its task stands
    iteration_no,   \* disk_usage_eviction_task: iterations started by the loop
    http_calls,     \* calls made by the ad-hoc caller
    usage_pre,      \* per caller: the usage the iteration was started with
    collect,        \* per caller: the locals of collect_eviction_candidates
    candidates,     \* per caller: the ranked list returned by the collector
    plan,           \* per caller: the result of phase 1
    exec,           \* per caller: the locals of phase 2 (evict_layers)
    result,         \* per caller: what the iteration returned
    log,            \* per caller: the messages and probes of the current iteration
    launch,         \* conf.disk_usage_based_eviction is Some; the barrier is released
    tenants,        \* attachment service: PersistentState::tenants
    rwlock,         \* attachment service: the request holding State::inner for writing
    requests,       \* attachment service: per request, where its handler stands
    returned,       \* attachment service: the response returned last, and the kind of its request
    issued,         \* attachment service: per tenant, the generations returned so far
    arrivals,       \* attachment service: the requests received so far
    state_file,     \* attachment service: the file at args.path
    service,        \* attachment service: the process is down, serving or has panicked
    starts,         \* attachment service: the times the process was started
    overflow_checks \* the build panics on integer overflow (debug-assertions builds)

vars == <<task_config, tenant_conf, timeline_conf, layer_conf, resident, mutex,
          cancelled, pc, iteration_no, http_calls, usage_pre, collect,
          candidates, plan, exec, result, log, launch,
          tenants, rwlock, requests, returned, issued, arrivals,
          state_file, service, starts, overflow_checks>>

\* the state of the attachment service, a program of its own
attachment_service == <<tenants, rwlock, requests, returned, issued, arrivals,
                        state_file, service, starts, overflow_checks>>

world == <<task_config, tenant_conf, timeline_conf, layer_conf, launch,
           attachment_service>>

\* the state of the pageserver's eviction task
pageserver == <<task_config, tenant_conf, timeline_conf, layer_conf, resident,
                mutex, cancelled, pc, iteration_no, http_calls, usage_pre,
                collect, candidates, plan, exec, result, log, launch>>

(***************************************************************************)
(* filesystem_level_usage: Usage, has_pressure, add_available_bytes, get   *)
(***************************************************************************)
\* pressure whatever the usage
has_pressure_always(u) == TRUE

\* pressure by min_avail_bytes alone
has_pressure_min_avail_only(u) == u.avail_bytes < u.config.min_avail_bytes

has_pressure(u) ==
    \/ u64_lt(u.avail_bytes, u.config.min_avail_bytes)
    \/ usage_pct(u.total_bytes, u.avail_bytes) >= u.config.max_usage_pct

\* line 979: self.avail_bytes += bytes leaves the u64, a panic in a build
\* with overflow checks
add_available_bytes_overflows(u, bytes) ==
    \/ u.avail_bytes < 0 /\ bytes < 0
    \/ (u.avail_bytes < 0) # (bytes < 0) /\ u.avail_bytes + bytes >= 0

\* lines 978-980, in a build without overflow checks: the sum modulo 2^64,
\* which is the sum of the two numbers that stand for the u64s
add_available_bytes(u, bytes) == [u EXCEPT !.avail_bytes = @ + bytes]

\* filesystem_level_usage::get on the statvfs answer `stat`
filesystem_level_usage_get(stat, config) ==
    LET blocksize == IF stat.fragment_size > 0 THEN stat.fragment_size
                     ELSE stat.block_size
    IN  [config      |-> config,
         total_bytes |-> stat.blocks * blocksize,
         avail_bytes |-> stat.blocks_available * blocksize]

(***************************************************************************)
(* finite_f32::FiniteF32 over f32.  An f32 is [mant, exp], the number      *)
(* mant * 2^-exp: mant is 0 with exp 0, or has 24 significant bits         *)
(* (2^23 <= |mant| < 2^24), so that equal numbers are equal records.       *)
(***************************************************************************)
F32_MANTISSA_DIGITS == 24

RECURSIVE Exp2(_)
Exp2(n) == IF n = 0 THEN 1 ELSE 2 * Exp2(n - 1)

\* the doublings of b after which a < b (a, b > 0)
RECURSIVE Doublings(_, _)
Doublings(a, b) == IF a < b THEN 0 ELSE 1 + Doublings(a, 2 * b)

\* (a as f32) / (b as f32) for b > 0, with |a| and b below 2^20 and
\* |a| < 2^8 * b: the quotient rounded to 24 significant bits, to nearest,
\* ties to even
F32Div(a, b) ==
    IF a = 0 THEN [mant |-> 0, exp |-> 0]
    ELSE LET abs == IF a < 0 THEN -a ELSE a
             k   == Doublings(abs, b)
             t   == b * Exp2(k)
             n   == LeadZerosDiv(abs, t) + F32_MANTISSA_DIGITS
             d   == DivBits(abs, t, n)
             m   == ValueOf(SubSeq(d.bits, n - F32_MANTISSA_DIGITS + 1, n))
             rb  == IF 2 * d.rem >= t THEN 1 ELSE 0
             st  == (2 * d.rem - rb * t) # 0
             up  == rb = 1 /\ (st \/ m % 2 = 1)
             r   == IF up /\ m + 1 = Exp2(F32_MANTISSA_DIGITS)
                    THEN [mant |-> Exp2(F32_MANTISSA_DIGITS - 1), exp |-> n - k - 1]
                    ELSE [mant |-> IF up THEN m + 1 ELSE m, exp |-> n - k]
         IN  IF a < 0 THEN [r EXCEPT !.mant = -@] ELSE r

\* F32Div tabulated over the quotients the collectors of the model meet
F32DivPairs == {<<p, F32Div(p[1], p[2])>> : p \in (0..6) \X (1..6)}

FiniteF32_ZERO == [mant |-> 0, exp |-> 0]

\* FiniteF32::try_from_normalized: Ok for a value in 0.0..=1.0, else Err
try_from_normalized(v) ==
    IF \/ v.mant = 0
       \/ v.mant > 0 /\ v.exp >= F32_MANTISSA_DIGITS
       \/ v.mant = Exp2(F32_MANTISSA_DIGITS - 1) /\ v.exp = F32_MANTISSA_DIGITS - 1
    THEN Some(v) ELSE NoneOpt

\* Ord for FiniteF32 (f32::total_cmp), strict; a FiniteF32 is not negative
FiniteF32Less(x, y) ==
    /\ y.mant > 0
    /\ \/ x.mant = 0
       \/ x.exp > y.exp
       \/ x.exp = y.exp /\ x.mant < y.mant

(***************************************************************************)
(* collect_eviction_candidates                                             *)
(***************************************************************************)
\* the order of the variants swapped: Below < Above
PartitionRank_swapped(p) == IF p = "Below" THEN 0 ELSE 1

\* MinResidentSizePartition derives Ord: Above < Below
PartitionRank(p) == IF p = "Above" THEN 0 ELSE 1

\* the order in which a timeline lists its layers
LayerOrder ==
    <<"a", "b", "c", "d", "e",
      "Aa", "Ab", "Ac", "Ad", "Ae", "Ba", "Bb", "Bc", "Bd", "Be">>

\* Timeline::get_local_layers_for_disk_usage_eviction
get_local_layers_for_disk_usage_eviction(tl) ==
    LET IsMine(l) == l \in resident /\ LayerTimeline[l] = tl
        mine      == SelectSeq(LayerOrder, IsMine)
    IN  [resident_layers |->
            [i \in 1..Len(mine) |->
                [layer            |-> mine[i],
                 timeline         |-> tl,
                 file_size        |-> layer_conf[mine[i]].file_size,
                 last_activity_ts |-> layer_conf[mine[i]].last_activity_ts]],
         max_layer_size |-> timeline_conf[tl].max_layer_size]

\* what sort_unstable_by_key may return: every arrangement of the elements S
\* in which no element comes before one with a strictly smaller key;
\* lt holds the pairs <<x, y>> with key(x) < key(y)
RECURSIVE SortedOrders(_, _)
SortedOrders(S, lt) ==
    IF S = {} THEN {<<>>}
    ELSE UNION {{<<x>> \o r : r \in SortedOrders(S \ {x}, lt)} :
                x \in {y \in S : \A z \in S : <<z, y>> \notin lt}}

\* the tenant's layers sorted least recently used first
SortMruFirst_lru_first(tc) ==
    LET idx == 1..Len(tc)
        lt  == {p \in idx \X idx :
                   tc[p[1]].last_activity_ts < tc[p[2]].last_activity_ts}
    IN  {[i \in idx |-> tc[o[i]]] : o \in SortedOrders(idx, lt)}

\* the tenant's layers left in any order
SortMruFirst_unsorted(tc) ==
    {[i \in 1..Len(tc) |-> tc[o[i]]] : o \in SortedOrders(1..Len(tc), {})}

\* sort_unstable_by_key(Reverse(last_activity_ts)) of the tenant's layers
SortMruFirst(tc) ==
    LET idx == 1..Len(tc)
        lt  == {p \in idx \X idx :
                   tc[p[1]].last_activity_ts > tc[p[2]].last_activity_ts}
    IN  {[i \in idx |-> tc[o[i]]] : o \in SortedOrders(idx, lt)}

RECURSIVE SumSizes(_, _)
SumSizes(seq, n) == IF n = 0 THEN 0 ELSE SumSizes(seq, n - 1) + seq[n].file_size

\* the larger of the override and the max layer size
min_resident_size_of_larger(tenant, max_layer_size) ==
    IF IsSome(tenant_conf[tenant].min_resident_size_override)
    THEN Max(Unwrap(tenant_conf[tenant].min_resident_size_override), max_layer_size)
    ELSE max_layer_size

\* lines 748-762: the override if the tenant has one, else the max layer size
min_resident_size_of(tenant, max_layer_size) ==
    IF IsSome(tenant_conf[tenant].min_resident_size_override)
    THEN Unwrap(tenant_conf[tenant].min_resident_size_override)
    ELSE max_layer_size

\* the comparison of lines 827-831 made inclusive
partition_of_inclusive(cumsum, min_resident_size) ==
    IF cumsum >= min_resident_size THEN "Above" ELSE "Below"

\* lines 827-831: cumsum is the size of the layers before this one
partition_of(cumsum, min_resident_size) ==
    IF cumsum > min_resident_size THEN "Above" ELSE "Below"

\* lines 772-798
\* a fudge of 2
total_of_fudge2(n, order) ==
    IF n >= 2 /\ n - 2 > 0 THEN n - 2 ELSE 1

total_of(n, order) ==
    LET fudge == IF highest_layer_count_loses_first(order) THEN 0 ELSE 1
    IN  IF n >= fudge /\ n - fudge > 0 THEN n - fudge ELSE 1

\* lines 806-819; i counts from 0
relative_last_activity_of(i, total, order) ==
    IF order.type = "RelativeAccessed"
    THEN LET q == IF <<total - i, total>> \in (0..6) \X (1..6)
                  THEN (CHOOSE p \in F32DivPairs : p[1] = <<total - i, total>>)[2]
                  ELSE F32Div(total - i, total)
             r == try_from_normalized(q)
         IN  IF IsSome(r) THEN Unwrap(r) ELSE FiniteF32_ZERO
    ELSE FiniteF32_ZERO

\* lines 801-834: the candidates of one tenant, from its layers sorted MRU first
tenant_partitioned(sorted, min_resident_size, order) ==
    LET total == total_of(Len(sorted), order)
    IN  [i \in 1..Len(sorted) |->
            [partition              |-> partition_of(SumSizes(sorted, i - 1),
                                                     min_resident_size),
             timeline               |-> sorted[i].timeline,
             layer                  |-> sorted[i].layer,
             file_size              |-> sorted[i].file_size,
             last_activity_ts       |-> sorted[i].last_activity_ts,
             relative_last_activity |->
                 relative_last_activity_of(i - 1, total, order)]]

\* a key without the partition
candidate_key_less_no_partition(x, y, order) ==
    IF order.type = "AbsoluteAccessed"
    THEN x.last_activity_ts < y.last_activity_ts
    ELSE FiniteF32Less(x.relative_last_activity, y.relative_last_activity)

\* a key with the most recent activity first
candidate_key_less_mru(x, y, order) ==
    \/ PartitionRank(x.partition) < PartitionRank(y.partition)
    \/ /\ x.partition = y.partition
       /\ IF order.type = "AbsoluteAccessed"
          THEN x.last_activity_ts > y.last_activity_ts
          ELSE FiniteF32Less(y.relative_last_activity, x.relative_last_activity)

\* lines 840-851: the key of the final sort, strict comparison
candidate_key_less(x, y, order) ==
    \/ PartitionRank(x.partition) < PartitionRank(y.partition)
    \/ /\ x.partition = y.partition
       /\ IF order.type = "AbsoluteAccessed"
          THEN x.last_activity_ts < y.last_activity_ts
          ELSE FiniteF32Less(x.relative_last_activity, y.relative_last_activity)

\* the final sort_unstable_by_key of the flat list
SortCandidates(cs, order) ==
    LET idx == 1..Len(cs)
        lt  == {p \in idx \X idx : candidate_key_less(cs[p[1]], cs[p[2]], order)}
    IN  {[i \in idx |-> cs[o[i]]] : o \in SortedOrders(idx, lt)}

(***************************************************************************)
(* phase 1 of disk_usage_eviction_task_iteration_impl (lines 383-414)      *)
(***************************************************************************)
\* a for loop without the break of lines 388-394
RECURSIVE phase1_no_break(_, _, _, _)
phase1_no_break(cands, i, usage_planned, warned) ==
    IF i > Len(cands)
    THEN [usage_planned |-> usage_planned, warned |-> warned,
          evicted_amount |-> i - 1]
    ELSE phase1_no_break(cands, i + 1,
                add_available_bytes(usage_planned, cands[i].file_size),
                IF cands[i].partition = "Below" /\ ~IsSome(warned)
                THEN Some(usage_planned) ELSE warned)

\* a for loop that never enters the `if` of lines 396-401
RECURSIVE phase1_never_warns(_, _, _, _)
phase1_never_warns(cands, i, usage_planned, warned) ==
    IF i > Len(cands) \/ ~has_pressure(usage_planned)
    THEN [usage_planned |-> usage_planned, warned |-> warned,
          evicted_amount |-> i - 1]
    ELSE phase1_never_warns(cands, i + 1,
                add_available_bytes(usage_planned, cands[i].file_size),
                warned)

\* lines 387-403: one pass of the body of the for loop over the candidates;
\* l holds the loop's variables, and broke once the break was taken
phase1_body(candidate, l) ==
    IF l.broke THEN l
    ELSE IF ~has_pressure(l.usage_planned) THEN [l EXCEPT !.broke = TRUE]
    ELSE [usage_planned  |-> add_available_bytes(l.usage_planned,
                                                 candidate.file_size),
          warned         |-> IF candidate.partition = "Below" /\ ~IsSome(l.warned)
                             THEN Some(l.usage_planned) ELSE l.warned,
          evicted_amount |-> l.evicted_amount + 1,
          broke          |-> FALSE]

\* lines 387-403: the passes for the candidates lo to hi, in their order
\* (the range is halved so that a list of any length can be evaluated; after
\* the break the remaining candidates are not visited)
RECURSIVE phase1_loop(_, _, _, _)
phase1_loop(cands, lo, hi, l) ==
    IF lo > hi THEN l
    ELSE IF lo = hi THEN phase1_body(cands[lo], l)
    ELSE LET mid  == (lo + hi) \div 2
             half == phase1_loop(cands, lo, mid, l)
         IN  IF half.broke THEN half
             ELSE phase1_loop(cands, mid + 1, hi, half)

\* the for loop from candidate i on; warned is an Option<Usage>
phase1(cands, i, usage_planned, warned) ==
    LET l == phase1_loop(cands, i, Len(cands),
                         [usage_planned |-> usage_planned, warned |-> warned,
                          evicted_amount |-> i - 1, broke |-> FALSE])
    IN  [usage_planned |-> l.usage_planned, warned |-> l.warned,
         evicted_amount |-> l.evicted_amount]

\* the two fields of lines 405-414 filled the other way round
PlannedUsage_swapped(p) ==
    IF IsSome(p.warned)
    THEN [respecting_tenant_min_resident_size |-> p.usage_planned,
          fallback_to_global_lru |-> p.warned]
    ELSE [respecting_tenant_min_resident_size |-> p.usage_planned,
          fallback_to_global_lru |-> NoneOpt]

\* lines 405-414
PlannedUsage(p) ==
    IF IsSome(p.warned)
    THEN [respecting_tenant_min_resident_size |-> Unwrap(p.warned),
          fallback_to_global_lru |-> Some(p.usage_planned)]
    ELSE [respecting_tenant_min_resident_size |-> p.usage_planned,
          fallback_to_global_lru |-> NoneOpt]

(***************************************************************************)
(* phase 2: evict_layers (lines 419-502)                                   *)
(***************************************************************************)
\* the size of the JoinSet's pool
limit == 1000

\* what a joined eviction task hands back: Ok(Ok(file_size)),
\* Ok(Err((file_size, Some(NotFound | Downloaded)))), Ok(Err((file_size, None)))
\* for the 5 s timeout, and the two JoinErrors there are: Err(je) of a task
\* that panicked and Err(je) of a task that was cancelled
EvictionResults == {"Ok", "NotFound", "Downloaded", "Timeout", "Panic", "Cancelled"}

\* lines 477-496: what a task of the JoinSet ends with while its JoinSet is
\* joined.  A task is cancelled by abort, by the drop of the JoinSet or by
\* the shutdown of its runtime: evict_layers aborts no task, a dropped
\* JoinSet is joined no more, and the tasks are spawned on the runtime that
\* polls evict_layers.
TaskOutcomes == EvictionResults \ {"Cancelled"}

\* history of phase 2: how many tasks were joined with each result, and the
\* file sizes they carried
NoHarvest == [kind \in EvictionResults |-> [count |-> 0, file_sizes |-> 0]]

\* the locals of phase 2 before the first poll (lines 419-428)
ExecInit(usage) ==
    [js_running       |-> {},      \* JoinSet: tasks spawned and not finished
     js_ready         |-> <<>>,    \* JoinSet: finished tasks, not joined yet
     evicted_next     |-> 0,       \* candidates taken from the `evicted` iterator
     consumed_all     |-> FALSE,
     usage_assumed    |-> usage,
     evictions_failed |-> [file_sizes |-> 0, count |-> 0],
     finished         |-> FALSE,   \* evict_layers returned its tuple
     panicked         |-> FALSE,   \* evict_layers panicked at line 458
     harvested        |-> NoHarvest]  \* history: per result, the tasks joined

js_len(e) == Cardinality(e.js_running) + Len(e.js_ready)

\* line 432: the pool is full
pool_full(e) == js_len(e) >= limit

\* an accounting that leaves a timed-out eviction out of evictions_failed
account_timeout_dropped(e, next) ==
    LET r == next.result
    IN  CASE r.kind = "Ok" ->
               [e EXCEPT !.usage_assumed = add_available_bytes(@, r.file_size)]
          [] r.kind \in {"NotFound", "Downloaded"} ->
               [e EXCEPT !.evictions_failed =
                   [file_sizes |-> @.file_sizes + r.file_size, count |-> @.count + 1]]
          [] r.kind = "Cancelled" -> [e EXCEPT !.panicked = TRUE]
          [] OTHER -> e

\* an accounting that leaves usage_assumed alone after a successful eviction
account_ok_uncounted(e, next) ==
    LET r == next.result
    IN  CASE r.kind \in {"NotFound", "Downloaded", "Timeout"} ->
               [e EXCEPT !.evictions_failed =
                   [file_sizes |-> @.file_sizes + r.file_size, count |-> @.count + 1]]
          [] r.kind = "Cancelled" -> [e EXCEPT !.panicked = TRUE]
          [] OTHER -> e

\* lines 441-462: the accounting of one joined task.  The JoinError of a
\* cancelled task is unreachable!("not used"), a panic of evict_layers; that
\* of a panicked task changes nothing.  The arm of line 460 is for a
\* JoinError that is neither, which tokio does not make.
account(e, next) ==
    LET r == next.result
    IN  CASE r.kind = "Ok" ->
               [e EXCEPT !.usage_assumed = add_available_bytes(@, r.file_size)]
          [] r.kind \in {"NotFound", "Downloaded"} ->
               [e EXCEPT !.evictions_failed =
                   [file_sizes |-> @.file_sizes + r.file_size, count |-> @.count + 1]]
          [] r.kind = "Timeout" ->
               [e EXCEPT !.evictions_failed =
                   [file_sizes |-> @.file_sizes + r.file_size, count |-> @.count + 1]]
          [] r.kind = "Cancelled" -> [e EXCEPT !.panicked = TRUE]
          [] OTHER -> e

\* js.join_next() hands back the task that finished first
join_next(e) ==
    LET r == Head(e.js_ready).result
    IN  [e EXCEPT !.js_ready = Tail(@),
                  !.harvested[r.kind] = [count      |-> @.count + 1,
                                         file_sizes |-> @.file_sizes + r.file_size]]

\* a poll in which join_next() of an empty JoinSet stays pending
RECURSIVE evict_layers_poll_empty_join_pends(_, _)
evict_layers_poll_empty_join_pends(e, k) ==
    IF (pool_full(e) \/ e.consumed_all) /\ e.js_ready = <<>>
    THEN e
    ELSE LET joined == account(join_next(e), Head(e.js_ready))
             e1 == IF pool_full(e) \/ e.consumed_all
                   THEN IF e.js_ready # <<>> THEN joined ELSE e
                   ELSE IF js_len(e) > 0
                   THEN IF e.js_ready # <<>> THEN joined ELSE e
                   ELSE e
         IN  IF e1.panicked THEN e1
             ELSE IF e1.consumed_all /\ js_len(e1) = 0
             THEN [e1 EXCEPT !.finished = TRUE]
             ELSE IF e1.evicted_next >= k
             THEN evict_layers_poll_empty_join_pends([e1 EXCEPT !.consumed_all = TRUE], k)
             ELSE [e1 EXCEPT !.js_running = @ \cup {e1.evicted_next + 1},
                             !.evicted_next = @ + 1]

\* a poll that returns the tuple as soon as all evictions are started
RECURSIVE evict_layers_poll_no_wait(_, _)
evict_layers_poll_no_wait(e, k) ==
    IF (pool_full(e) \/ e.consumed_all) /\ e.js_ready = <<>> /\ e.js_running # {}
    THEN e
    ELSE LET joined == account(join_next(e), Head(e.js_ready))
             e1 == IF pool_full(e) \/ e.consumed_all
                   THEN IF e.js_ready # <<>> THEN joined ELSE e
                   ELSE IF js_len(e) > 0
                   THEN IF e.js_ready # <<>> THEN joined ELSE e
                   ELSE e
         IN  IF e1.panicked THEN e1
             ELSE IF e1.consumed_all /\ js_len(e1) = 0
             THEN [e1 EXCEPT !.finished = TRUE]
             ELSE IF e1.evicted_next >= k
             THEN [e1 EXCEPT !.consumed_all = TRUE, !.finished = TRUE]
             ELSE [e1 EXCEPT !.js_running = @ \cup {e1.evicted_next + 1},
                             !.evicted_next = @ + 1]

\* a poll that takes the planned candidates from the last one backwards
RECURSIVE evict_layers_poll_backwards(_, _)
evict_layers_poll_backwards(e, k) ==
    IF (pool_full(e) \/ e.consumed_all) /\ e.js_ready = <<>> /\ e.js_running # {}
    THEN e
    ELSE LET joined == account(join_next(e), Head(e.js_ready))
             e1 == IF pool_full(e) \/ e.consumed_all
                   THEN IF e.js_ready # <<>> THEN joined ELSE e
                   ELSE IF js_len(e) > 0
                   THEN IF e.js_ready # <<>> THEN joined ELSE e
                   ELSE e
         IN  IF e1.panicked THEN e1
             ELSE IF e1.consumed_all /\ js_len(e1) = 0
             THEN [e1 EXCEPT !.finished = TRUE]
             ELSE IF e1.evicted_next >= k
             THEN evict_layers_poll_backwards([e1 EXCEPT !.consumed_all = TRUE], k)
             ELSE [e1 EXCEPT !.js_running = @ \cup {k - e1.evicted_next},
                             !.evicted_next = @ + 1]

\* lines 433 and 436: the finished tasks js.join_next() hands back within
\* one poll of the task, the cooperative budget of tokio; after them
\* join_next() is pending, with the task woken, though finished tasks wait
coop_budget == 128

\* the loop of lines 431-499 within one poll, with `budget` joins left; k is
\* evicted_amount, the length of the `evicted` iterator
RECURSIVE evict_layers_loop(_, _, _)
evict_layers_loop(e, k, budget) ==
    IF /\ pool_full(e) \/ e.consumed_all
       /\ js_len(e) > 0
       /\ e.js_ready = <<>> \/ budget = 0
    THEN e      \* js.join_next().await is pending
    ELSE LET ready == e.js_ready # <<>> /\ budget > 0
             joined == account(join_next(e), Head(e.js_ready))
             e1 == IF pool_full(e) \/ e.consumed_all
                   THEN IF ready THEN joined ELSE e
                   ELSE IF js_len(e) > 0
                   THEN IF ready THEN joined ELSE e
                   ELSE e
         IN  IF e1.panicked THEN e1
             ELSE IF e1.consumed_all /\ js_len(e1) = 0
             THEN [e1 EXCEPT !.finished = TRUE]
             ELSE IF e1.evicted_next >= k
             THEN evict_layers_loop([e1 EXCEPT !.consumed_all = TRUE], k,
                                    IF ready THEN budget - 1 ELSE budget)
             ELSE [e1 EXCEPT !.js_running = @ \cup {e1.evicted_next + 1},
                             !.evicted_next = @ + 1]

\* one poll of the evict_layers future, from the top of its loop, until it
\* is pending (at join_next().await or at yield_now().await) or returns;
\* k is evicted_amount, the length of the `evicted` iterator
evict_layers_poll(e, k) == evict_layers_loop(e, k, coop_budget)

(***************************************************************************)
(* The state of the tasks                                                  *)
(***************************************************************************)
CollectInit ==
    [ti |-> 1, tj |-> 1, tenant_candidates |-> <<>>, max_layer_size |-> 0,
     candidates |-> <<>>]

\* probes: the calls of filesystem_level_usage::get of the iteration;
\* after: the usage the iteration measured after a Finished outcome
LogInit == [probes |-> 0, msgs |-> {}, after |-> NoneOpt]

\* the error of a failed probe, in place of the overlap error
ErrIterationFailed == [type |-> "Err", msg |-> "iteration failed"]

ErrAlreadyExecuting == [type |-> "Err", msg |-> "iteration is already executing"]

\* A caller goes on synchronously from the return of the implementation to
\* its own next await (LoopVerify, HttpReturn): nothing else happens between.
NoReturnPending == \A c \in Callers : pc[c] # "returned"

\* a try_lock that succeeds whether or not the guard is held
try_lock_unguarded == TRUE

\* State::mutex.try_lock() succeeds
try_lock == mutex = "free"

Returns(c, r) ==
    /\ result' = [result EXCEPT ![c] = Some(r)]
    /\ pc' = [pc EXCEPT ![c] = "returned"]

\* a guard that stays locked when it is dropped
Unlock_leaks(c) == mutex' = mutex

\* dropping the guard _g
Unlock(c) == mutex' = IF mutex = c THEN "free" ELSE mutex

\* disk_usage_eviction_task_iteration_impl, lines 323-347: up to the call of
\* collect_eviction_candidates
impl_enter(c, u) ==
    IF ~try_lock
    THEN /\ Returns(c, ErrAlreadyExecuting)
         /\ UNCHANGED <<mutex, usage_pre, collect>>
    ELSE IF ~has_pressure(u)
    THEN /\ Returns(c, [type |-> "NoPressure"])
         /\ usage_pre' = [usage_pre EXCEPT ![c] = Some(u)]
         /\ UNCHANGED <<mutex, collect>>
    ELSE /\ mutex' = c
         /\ usage_pre' = [usage_pre EXCEPT ![c] = Some(u)]
         /\ collect' = [collect EXCEPT ![c] = Some(CollectInit)]
         /\ pc' = [pc EXCEPT ![c] = "collect_tenant"]
         /\ UNCHANGED result

(***************************************************************************)
(* The answers of Statvfs::get, and the usages an ad-hoc caller passes     *)
(***************************************************************************)
StatvfsAnswers ==
    {[fragment_size |-> f, block_size |-> 1, blocks |-> 5, blocks_available |-> a] :
        f \in {0, 2}, a \in {2, 4}}

HttpUsages(config) ==
    {[config |-> config, total_bytes |-> 10, avail_bytes |-> a] : a \in {4, 8}}

(***************************************************************************)
(* The periodic loop: disk_usage_eviction_task (lines 163-218)             *)
(***************************************************************************)
\* lines 176-182: random_init_delay ends with the delay or with the token
\* launch_disk_usage_global_eviction_task, lines 130-142: without a
\* configuration nothing is spawned
Launch ==
    /\ pc["loop"] = "launch"
    /\ IF launch.configured
       THEN /\ pc' = [pc EXCEPT !["loop"] = "barrier"]
            /\ log' = [log EXCEPT !["loop"].msgs =
                          @ \cup {"launching disk usage based eviction task"}]
       ELSE /\ pc' = [pc EXCEPT !["loop"] = "not_started"]
            /\ log' = [log EXCEPT !["loop"].msgs =
                          @ \cup {"disk usage based eviction task not configured"}]
    /\ UNCHANGED <<world, resident, mutex, cancelled, iteration_no, http_calls,
                   usage_pre, collect, candidates, plan, exec, result>>

\* the initial load is complete: the background jobs barrier is released
BarrierRelease ==
    /\ ~launch.barrier_released
    /\ launch' = [launch EXCEPT !.barrier_released = TRUE]
    /\ UNCHANGED <<task_config, tenant_conf, timeline_conf, layer_conf, resident,
                   mutex, cancelled, pc, iteration_no, http_calls, usage_pre,
                   collect, candidates, plan, exec, result, log,
                   attachment_service>>

\* completion::Barrier::wait is ready once the barrier is released
barrier_wait_ready == launch.barrier_released

\* a select! whose second branch is ready without the barrier
LaunchSelect_no_barrier ==
    /\ pc["loop"] = "barrier"
    /\ \/ cancelled /\ pc' = [pc EXCEPT !["loop"] = "exit"]
       \/ pc' = [pc EXCEPT !["loop"] = "init_delay"]
    /\ UNCHANGED <<world, resident, mutex, cancelled, iteration_no, http_calls,
                   usage_pre, collect, candidates, plan, exec, result, log>>

\* lines 146-151: the select! of the spawned task, either ready branch
LaunchSelect ==
    /\ pc["loop"] = "barrier"
    /\ \/ cancelled /\ pc' = [pc EXCEPT !["loop"] = "exit"]
       \/ barrier_wait_ready /\ pc' = [pc EXCEPT !["loop"] = "init_delay"]
    /\ UNCHANGED <<world, resident, mutex, cancelled, iteration_no, http_calls,
                   usage_pre, collect, candidates, plan, exec, result, log>>

\* crate::tenant::tasks::random_init_delay: Ok once the random delay within
\* period has elapsed, Err when the token is cancelled
random_init_delay == IF cancelled THEN "Err" ELSE "Ok"

\* lines 171-179
LoopInitDelay ==
    /\ pc["loop"] = "init_delay"
    /\ NoReturnPending
    /\ pc' = [pc EXCEPT !["loop"] = IF random_init_delay = "Err" THEN "exit"
                                    ELSE "iteration"]
    /\ UNCHANGED <<world, resident, mutex, cancelled, iteration_no, http_calls,
                   usage_pre, collect, candidates, plan, exec, result, log>>

\* lines 186-197 and 232-241: a new iteration probes the filesystem and
\* enters the implementation
LoopIterationBegin ==
    /\ pc["loop"] = "iteration"
    /\ NoReturnPending
    /\ iteration_no < MaxIterations
    /\ iteration_no' = iteration_no + 1
    /\ \/ \* statvfs failed: the iteration returns the error, the loop warns
          /\ log' = [log EXCEPT !["loop"] =
                        [probes |-> 1, msgs |-> {"iteration failed"},
                         after |-> NoneOpt]]
          /\ pc' = [pc EXCEPT !["loop"] = "sleep"]
          /\ UNCHANGED <<mutex, usage_pre, collect, result>>
       \/ \E stat \in StatvfsAnswers :
             /\ log' = [log EXCEPT !["loop"] =
                           [probes |-> 1, msgs |-> {}, after |-> NoneOpt]]
             /\ impl_enter("loop", filesystem_level_usage_get(stat, task_config))
    /\ UNCHANGED <<world, resident, cancelled, http_calls, candidates, plan, exec>>

\* lines 242-275: the iteration after the implementation returned
LoopVerify ==
    /\ pc["loop"] = "returned"
    /\ LET res == Unwrap(result["loop"])
       IN  \/ /\ res.type \in {"NoPressure", "Cancelled"}
              /\ UNCHANGED log
           \/ /\ res.type = "Err"
              /\ log' = [log EXCEPT !["loop"].msgs =
                            @ \cup {"disk_usage_eviction_iteration failed"}]
           \/ /\ res.type = "Finished"
              /\ \/ log' = [log EXCEPT !["loop"] =
                              [probes |-> @.probes + 1,
                               msgs |-> @.msgs \cup {"iteration failed"},
                               after |-> NoneOpt]]
                 \/ \E stat \in StatvfsAnswers :
                       LET after == filesystem_level_usage_get(stat, task_config)
                       IN  log' = [log EXCEPT !["loop"] =
                                     [probes |-> @.probes + 1,
                                      msgs |-> @.msgs \cup
                                          {IF has_pressure(after)
                                           THEN "disk usage still high"
                                           ELSE "disk usage pressure relieved"},
                                      after |-> Some(after)]]
    /\ pc' = [pc EXCEPT !["loop"] = "sleep"]
    /\ usage_pre' = [usage_pre EXCEPT !["loop"] = NoneOpt]
    /\ collect' = [collect EXCEPT !["loop"] = NoneOpt]
    /\ candidates' = [candidates EXCEPT !["loop"] = NoneOpt]
    /\ plan' = [plan EXCEPT !["loop"] = NoneOpt]
    /\ exec' = [exec EXCEPT !["loop"] = NoneOpt]
    /\ result' = [result EXCEPT !["loop"] = NoneOpt]
    /\ UNCHANGED <<world, resident, mutex, cancelled, iteration_no, http_calls>>

\* a sleep that ends the loop
LoopSleep_exits ==
    /\ pc["loop"] = "sleep"
    /\ NoReturnPending
    /\ pc' = [pc EXCEPT !["loop"] = "exit"]
    /\ log' = [log EXCEPT !["loop"] = LogInit]
    /\ UNCHANGED <<world, resident, mutex, cancelled, iteration_no, http_calls,
                   usage_pre, collect, candidates, plan, exec, result>>

\* a sleep that does not look at the token
LoopSleep_ignores_token ==
    /\ pc["loop"] = "sleep"
    /\ NoReturnPending
    /\ pc' = [pc EXCEPT !["loop"] = "iteration"]
    /\ log' = [log EXCEPT !["loop"] = LogInit]
    /\ UNCHANGED <<world, resident, mutex, cancelled, iteration_no, http_calls,
                   usage_pre, collect, candidates, plan, exec, result>>

\* lines 210-216: sleep until start + period, or until the token fires
LoopSleep ==
    /\ pc["loop"] = "sleep"
    /\ NoReturnPending
    /\ pc' = [pc EXCEPT !["loop"] = IF cancelled THEN "exit" ELSE "iteration"]
    /\ log' = [log EXCEPT !["loop"] = LogInit]
    /\ UNCHANGED <<world, resident, mutex, cancelled, iteration_no, http_calls,
                   usage_pre, collect, candidates, plan, exec, result>>

(***************************************************************************)
(* The ad-hoc caller of disk_usage_eviction_task_iteration_impl            *)
(***************************************************************************)
HttpCall ==
    /\ pc["http"] = "idle"
    /\ NoReturnPending
    /\ http_calls < MaxHttpCalls
    /\ http_calls' = http_calls + 1
    /\ log' = [log EXCEPT !["http"] = LogInit]
    /\ \E u \in HttpUsages(task_config) : impl_enter("http", u)
    /\ UNCHANGED <<world, resident, cancelled, iteration_no, candidates, plan, exec>>

HttpReturn ==
    /\ pc["http"] = "returned"
    /\ pc' = [pc EXCEPT !["http"] = "idle"]
    /\ usage_pre' = [usage_pre EXCEPT !["http"] = NoneOpt]
    /\ collect' = [collect EXCEPT !["http"] = NoneOpt]
    /\ candidates' = [candidates EXCEPT !["http"] = NoneOpt]
    /\ plan' = [plan EXCEPT !["http"] = NoneOpt]
    /\ exec' = [exec EXCEPT !["http"] = NoneOpt]
    /\ result' = [result EXCEPT !["http"] = NoneOpt]
    /\ UNCHANGED <<world, resident, mutex, cancelled, iteration_no, http_calls, log>>

\* a collector that visits the tenants that are shutting down
tenant_skipped_not_found_only(t) == ~tenant_conf[t].found

\* lines 697-709: get_tenant fails, or the tenant's own token is cancelled
tenant_skipped(t) == ~tenant_conf[t].found \/ tenant_conf[t].shutdown

\* a token the collector never finds cancelled
is_cancelled_never == FALSE

\* cancel.is_cancelled() of lines 694 and 732
is_cancelled == cancelled

(***************************************************************************)
(* collect_eviction_candidates (lines 682-854), one step per await         *)
(***************************************************************************)
\* lines 693-718: the head of the loop over the tenants
CollectTenant(c) ==
    /\ pc[c] = "collect_tenant"
    /\ NoReturnPending
    /\ LET col == Unwrap(collect[c])
       IN  /\ col.ti <= Len(TenantList)
           /\ IF is_cancelled
              THEN /\ Returns(c, [type |-> "Cancelled"])
                   /\ Unlock(c)
                   /\ UNCHANGED collect
              ELSE IF tenant_skipped(TenantList[col.ti])
              THEN /\ collect' = [collect EXCEPT ![c] = Some([col EXCEPT !.ti = @ + 1])]
                   /\ UNCHANGED <<pc, result, mutex>>
              ELSE /\ collect' = [collect EXCEPT ![c] =
                          Some([col EXCEPT !.tj = 1, !.tenant_candidates = <<>>,
                                           !.max_layer_size = 0])]
                   /\ pc' = [pc EXCEPT ![c] = "collect_timeline"]
                   /\ UNCHANGED <<result, mutex>>
    /\ UNCHANGED <<world, resident, cancelled, iteration_no, http_calls,
                   usage_pre, candidates, plan, exec, log>>

\* lines 719-723: one timeline of the tenant, up to the await of
\* get_local_layers_for_disk_usage_eviction, where the collector is suspended
CollectTimeline(c) ==
    /\ pc[c] = "collect_timeline"
    /\ NoReturnPending
    /\ LET col == Unwrap(collect[c])
           tls == TimelinesOf[TenantList[col.ti]]
       IN  /\ col.tj <= Len(tls)
           /\ IF ~timeline_conf[tls[col.tj]].active
              THEN /\ collect' = [collect EXCEPT ![c] = Some([col EXCEPT !.tj = @ + 1])]
                   /\ UNCHANGED pc
              ELSE /\ pc' = [pc EXCEPT ![c] = "collect_layers"]
                   /\ UNCHANGED collect
    /\ UNCHANGED <<world, resident, mutex, cancelled, iteration_no, http_calls,
                   usage_pre, candidates, plan, exec, result, log>>

\* lines 723-735: get_local_layers_for_disk_usage_eviction returns; the
\* layers are added to the tenant's and the token is checked
CollectTimelineLayers(c) ==
    /\ pc[c] = "collect_layers"
    /\ NoReturnPending
    /\ LET col  == Unwrap(collect[c])
           tls  == TimelinesOf[TenantList[col.ti]]
           info == get_local_layers_for_disk_usage_eviction(tls[col.tj])
           got  == [col EXCEPT
                      !.tenant_candidates = @ \o info.resident_layers,
                      !.max_layer_size =
                          Max(@, IF IsSome(info.max_layer_size)
                                 THEN Unwrap(info.max_layer_size) ELSE 0),
                      !.tj = @ + 1]
       IN  IF is_cancelled
           THEN /\ Returns(c, [type |-> "Cancelled"])
                /\ Unlock(c)
                /\ UNCHANGED collect
           ELSE /\ collect' = [collect EXCEPT ![c] = Some(got)]
                /\ pc' = [pc EXCEPT ![c] = "collect_timeline"]
                /\ UNCHANGED <<result, mutex>>
    /\ UNCHANGED <<world, resident, cancelled, iteration_no, http_calls,
                   usage_pre, candidates, plan, exec, log>>

\* lines 748-834: the tenant's layers are sorted, partitioned and pushed
CollectTenantFinish(c) ==
    /\ pc[c] = "collect_timeline"
    /\ NoReturnPending
    /\ LET col    == Unwrap(collect[c])
           tenant == TenantList[col.ti]
       IN  /\ col.tj > Len(TimelinesOf[tenant])
           /\ \E sorted \in SortMruFirst(col.tenant_candidates) :
                 collect' = [collect EXCEPT ![c] =
                     Some([col EXCEPT
                        !.candidates = @ \o tenant_partitioned(sorted,
                            min_resident_size_of(tenant, col.max_layer_size),
                            task_config.eviction_order),
                        !.ti = @ + 1])]
    /\ pc' = [pc EXCEPT ![c] = "collect_tenant"]
    /\ UNCHANGED <<world, resident, mutex, cancelled, iteration_no, http_calls,
                   usage_pre, candidates, plan, exec, result, log>>

ErrListTenants == [type |-> "Err", msg |-> "get list of tenants"]

\* lines 686-689: list_tenants fails before the loop over the tenants, and
\* the implementation returns the error (line 347)
CollectListFails(c) ==
    /\ pc[c] = "collect_tenant"
    /\ NoReturnPending
    /\ collect[c] = Some(CollectInit)
    /\ Returns(c, ErrListTenants)
    /\ Unlock(c)
    /\ UNCHANGED <<world, resident, cancelled, iteration_no, http_calls,
                   usage_pre, collect, candidates, plan, exec, log>>

\* lines 840-853: the final sort; the collector returns Finished(candidates)
CollectReturn(c) ==
    /\ pc[c] = "collect_tenant"
    /\ NoReturnPending
    /\ Unwrap(collect[c]).ti > Len(TenantList)
    /\ \E sorted \in SortCandidates(Unwrap(collect[c]).candidates,
                                     task_config.eviction_order) :
          candidates' = [candidates EXCEPT ![c] = Some(sorted)]
    /\ pc' = [pc EXCEPT ![c] = "plan"]
    /\ UNCHANGED <<world, resident, mutex, cancelled, iteration_no, http_calls,
                   usage_pre, collect, plan, exec, result, log>>

(***************************************************************************)
(* phases 1 and 2 of disk_usage_eviction_task_iteration_impl               *)
(***************************************************************************)
\* lines 383-428: phase 1, and the locals of phase 2
Plan(c) ==
    /\ pc[c] = "plan"
    /\ NoReturnPending
    /\ LET p == phase1(Unwrap(candidates[c]), 1, Unwrap(usage_pre[c]), NoneOpt)
       IN  /\ plan' = [plan EXCEPT ![c] =
                         Some([usage_planned  |-> PlannedUsage(p),
                               evicted_amount |-> p.evicted_amount])]
           /\ log' = [log EXCEPT ![c].msgs =
                         @ \cup IF IsSome(p.warned)
                                THEN {"evicting more following global LRU policy"}
                                ELSE {}]
    /\ exec' = [exec EXCEPT ![c] = Some(ExecInit(Unwrap(usage_pre[c])))]
    /\ pc' = [pc EXCEPT ![c] = "execute"]
    /\ UNCHANGED <<world, resident, mutex, cancelled, iteration_no, http_calls,
                   usage_pre, collect, candidates, result>>

\* an outcome that turns failed evictions into an error
FinishedOutcome_fatal(c, e) ==
    IF e.evictions_failed.count > 0
    THEN [type |-> "Err", msg |-> "eviction failed"]
    ELSE [type    |-> "Finished",
          before  |-> Unwrap(usage_pre[c]),
          planned |-> Unwrap(plan[c]).usage_planned,
          assumed |-> [projected_after |-> e.usage_assumed,
                       failed          |-> e.evictions_failed]]

\* lines 551-558
FinishedOutcome(c, e) ==
    [type    |-> "Finished",
     before  |-> Unwrap(usage_pre[c]),
     planned |-> Unwrap(plan[c]).usage_planned,
     assumed |-> [projected_after |-> e.usage_assumed,
                  failed          |-> e.evictions_failed]]

\* a JoinSet whose tasks are detached when it is dropped
drop_join_set_detached(e) == e

\* lines 544-548: returning from the select! drops the future that owns js,
\* and a dropped JoinSet aborts the tasks in it
drop_join_set(e) == [e EXCEPT !.js_running = {}, !.js_ready = <<>>]

\* a token the select! never finds ready
cancel_never == FALSE

\* line 544: the future cancel.cancelled() is ready
cancel_cancelled == cancelled

\* lines 542-549: one poll of the select! over evict_layers and
\* cancel.cancelled(); the branches are polled in a random order and the
\* first one found ready wins
ExecPoll(c) ==
    /\ pc[c] = "execute"
    /\ NoReturnPending
    /\ LET e == Unwrap(exec[c])
           k == Unwrap(plan[c]).evicted_amount
           polled == evict_layers_poll(e, k)
       IN  /\ cancelled \/ polled # e
           /\ \/ \* cancel.cancelled() is polled first and is ready: the
                 \* JoinSet is dropped, which aborts the tasks in it
                 /\ cancel_cancelled
                 /\ Returns(c, [type |-> "Cancelled"])
                 /\ Unlock(c)
                 /\ exec' = [exec EXCEPT ![c] = Some(drop_join_set(e))]
              \/ \* evict_layers is polled first
                 IF polled.panicked
                 THEN \* line 458: the panic unwinds through the
                      \* implementation, which drops js and the guard
                      /\ pc' = [pc EXCEPT ![c] = "panicked"]
                      /\ Unlock(c)
                      /\ exec' = [exec EXCEPT ![c] = Some(drop_join_set(polled))]
                      /\ UNCHANGED result
                 ELSE IF polled.finished
                 THEN /\ Returns(c, FinishedOutcome(c, polled))
                      /\ Unlock(c)
                      /\ exec' = [exec EXCEPT ![c] = Some(polled)]
                 ELSE IF cancel_cancelled
                 THEN /\ Returns(c, [type |-> "Cancelled"])
                      /\ Unlock(c)
                      /\ exec' = [exec EXCEPT ![c] = Some(drop_join_set(polled))]
                 ELSE /\ exec' = [exec EXCEPT ![c] = Some(polled)]
                      /\ UNCHANGED <<pc, result, mutex>>
    /\ UNCHANGED <<world, resident, cancelled, iteration_no, http_calls,
                   usage_pre, collect, candidates, plan, log>>

\* lines 477-496: a spawned task ends: evict_and_wait answered, the 5 s
\* timeout elapsed, or the task panicked; a successful eviction drops the
\* layer's file
TaskResolve(c, t, kind) ==
    /\ IsSome(exec[c])
    /\ NoReturnPending
    /\ t \in Unwrap(exec[c]).js_running
    /\ LET e     == Unwrap(exec[c])
           layer == Unwrap(candidates[c])[t]
       IN  /\ kind = "Ok" => layer.layer \in resident
           /\ exec' = [exec EXCEPT ![c] = Some([e EXCEPT
                         !.js_running = @ \ {t},
                         !.js_ready = Append(@, [task |-> t, result |->
                             [kind |-> kind, file_size |-> layer.file_size]])])]
           /\ resident' = IF kind = "Ok" THEN resident \ {layer.layer} ELSE resident
    /\ UNCHANGED <<world, mutex, cancelled, pc, iteration_no, http_calls,
                   usage_pre, collect, candidates, plan, result, log>>

\* the CancellationToken fires
Cancel ==
    /\ ~cancelled
    /\ NoReturnPending
    /\ cancelled' = TRUE
    /\ UNCHANGED <<world, resident, mutex, pc, iteration_no, http_calls,
                   usage_pre, collect, candidates, plan, exec, result, log>>

(***************************************************************************)
(* Specification                                                           *)
(***************************************************************************)
RequestIds == {"r1", "r2"}

\* a request slot without a request
NoRequest == [pc |-> "idle", kind |-> "none", req |-> NoneOpt, local |-> NoneOpt]

\* the file at args.path: missing, not the JSON of a PersistentState, or the
\* JSON of one, its tenants under the hex of their ids
NoFile == [kind |-> "missing"]
Undecodable == [kind |-> "undecodable"]
Json(hex_map) == [kind |-> "json", tenants |-> hex_map]

\* attachment_service.rs: the process is not running; the file is at
\* args.path
AttachmentDown(file, checks) ==
    /\ tenants = << >>
    /\ rwlock = NoneOpt
    /\ requests = [r \in RequestIds |-> NoRequest]
    /\ returned = NoneOpt
    /\ issued = [t \in TenantIds |-> << >>]
    /\ arrivals = 0
    /\ state_file = file
    /\ service = "down"
    /\ starts = 0
    /\ overflow_checks = checks

\* the attachment service is not part of the runs of the eviction task
AttachmentIdle == AttachmentDown(NoFile, FALSE)

\* the task of the loop was spawned and is past the barrier
Launched == [configured |-> TRUE, barrier_released |-> TRUE]

IdleTask ==
    /\ mutex = "free"
    /\ cancelled = FALSE
    /\ pc = [c \in Callers |-> IF c = "loop" THEN "init_delay" ELSE "idle"]
    /\ iteration_no = 0
    /\ http_calls = 0
    /\ usage_pre = [c \in Callers |-> NoneOpt]
    /\ collect = [c \in Callers |-> NoneOpt]
    /\ candidates = [c \in Callers |-> NoneOpt]
    /\ plan = [c \in Callers |-> NoneOpt]
    /\ exec = [c \in Callers |-> NoneOpt]
    /\ result = [c \in Callers |-> NoneOpt]
    /\ log = [c \in Callers |-> LogInit]
    /\ launch = Launched

IdleState == IdleTask /\ AttachmentIdle

AbsoluteAccessed ==
    [type |-> "AbsoluteAccessed", highest_layer_count_loses_first |-> FALSE]
RelativeAccessed(b) ==
    [type |-> "RelativeAccessed", highest_layer_count_loses_first |-> b]

Layer(size, ts) == [file_size |-> size, last_activity_ts |-> ts]

\* the max_layer_size a timeline reports: the largest of its layers,
\* resident or not
MaxLayerSizeOf(lc, tl) ==
    LET sizes == {lc[l].file_size : l \in {x \in DOMAIN lc : LayerTimeline[x] = tl}}
    IN  Some(CHOOSE m \in sizes : \A n \in sizes : m >= n)

TimelineConfs(lc, inactive) ==
    [tl \in TimelineIds |-> [active         |-> tl \notin inactive,
                             max_layer_size |-> MaxLayerSizeOf(lc, tl)]]

TenantConfs(overrideA, overrideB, shutdown) ==
    [t \in TenantIds |->
        [found    |-> TRUE,
         shutdown |-> t \in shutdown,
         min_resident_size_override |-> IF t = "A" THEN overrideA ELSE overrideB]]

\* the layers of the iterations of Spec
SpecLayers ==
    [a |-> Layer(1, 1), b |-> Layer(2, 2), c |-> Layer(1, 2),
     d |-> Layer(2, 1), e |-> Layer(1, 2)]

Init ==
    /\ \E order \in {AbsoluteAccessed, RelativeAccessed(FALSE)} :
          task_config = [max_usage_pct |-> 50, min_avail_bytes |-> 3,
                         eviction_order |-> order]
    /\ \E overrideA \in {NoneOpt, Some(0)} :
          tenant_conf = TenantConfs(overrideA, NoneOpt, {})
    /\ layer_conf = SpecLayers
    /\ timeline_conf = TimelineConfs(layer_conf, {})
    /\ resident = {"a", "b", "d"}
    /\ IdleState

Next ==
    \/ LoopInitDelay
    \/ LoopIterationBegin
    \/ LoopVerify
    \/ LoopSleep
    \/ HttpCall
    \/ HttpReturn
    \/ \E c \in Callers : CollectTenant(c)
    \/ \E c \in Callers : CollectTimeline(c)
    \/ \E c \in Callers : CollectTimelineLayers(c)
    \/ \E c \in Callers : CollectTenantFinish(c)
    \/ \E c \in Callers : CollectReturn(c)
    \/ \E c \in Callers : Plan(c)
    \/ \E c \in Callers : ExecPoll(c)
    \/ \E c \in Callers, t \in 1..Cardinality(LayerIds), kind \in TaskOutcomes :
          TaskResolve(c, t, kind)
    \/ Cancel

Spec == Init /\ [][Next]_vars

(***************************************************************************)
(* SpecLoop: the periodic loop alone, scheduled fairly: the runtime polls   *)
(* a task that can go on, the timers of the delay and of the sleep elapse,  *)
(* and every spawned eviction ends, by its answer or by its timeout.  The   *)
(* token may fire at any time or never.                                     *)
(***************************************************************************)
NextLoop ==
    \/ LoopInitDelay
    \/ LoopIterationBegin
    \/ LoopVerify
    \/ LoopSleep
    \/ CollectTenant("loop")
    \/ CollectTimeline("loop")
    \/ CollectTimelineLayers("loop")
    \/ CollectTenantFinish("loop")
    \/ CollectReturn("loop")
    \/ Plan("loop")
    \/ ExecPoll("loop")
    \/ \E t \in 1..Cardinality(LayerIds), kind \in TaskOutcomes :
          TaskResolve("loop", t, kind)
    \/ Cancel

\* a step of the task of the loop; its steps are enabled one at a time
LoopTask ==
    \/ LoopInitDelay
    \/ LoopIterationBegin
    \/ LoopVerify
    \/ LoopSleep
    \/ CollectTenant("loop")
    \/ CollectTimeline("loop")
    \/ CollectTimelineLayers("loop")
    \/ CollectTenantFinish("loop")
    \/ CollectReturn("loop")
    \/ Plan("loop")
    \/ ExecPoll("loop")

\* one of the spawned evictions ends
EvictionEnds ==
    \E t \in 1..Cardinality(LayerIds), kind \in TaskOutcomes :
        TaskResolve("loop", t, kind)

LoopFairness == WF_vars(LoopTask) /\ WF_vars(EvictionEnds)

SpecLoop == Init /\ [][NextLoop]_vars /\ LoopFairness

(***************************************************************************)
(* SpecCollect: one call of the implementation, from try_lock to the end   *)
(* of phase 1, over the layers, reservations, orders and usages below      *)
(***************************************************************************)
CollectLayers ==
    {[a |-> Layer(sa, ta), b |-> Layer(sb, tb), c |-> Layer(1, 2),
      d |-> Layer(2, 1), e |-> Layer(1, 2)] :
        sa \in 1..MaxLayerSize, sb \in 1..MaxLayerSize,
        ta \in 1..MaxTs, tb \in 1..MaxTs}

InitCollect ==
    /\ \E order \in EvictionOrders, min_avail \in {3, 11} :
          task_config = [max_usage_pct |-> 50, min_avail_bytes |-> min_avail,
                         eviction_order |-> order]
    /\ \E overrideA \in Option(0..MaxOverride) :
          tenant_conf = TenantConfs(overrideA, NoneOpt, {})
    /\ layer_conf \in CollectLayers
    /\ timeline_conf = TimelineConfs(layer_conf, {})
    /\ resident = LayerIds
    /\ IdleState

NextCollect ==
    \/ HttpCall
    \/ CollectTenant("http")
    \/ CollectTimeline("http")
    \/ CollectTimelineLayers("http")
    \/ CollectTenantFinish("http")
    \/ CollectReturn("http")
    \/ Plan("http")

SpecCollect == InitCollect /\ [][NextCollect]_vars

(***************************************************************************)
(* SpecKeys: one call of the implementation up to the end of phase 1 over   *)
(* tenants with any number of resident layers, zero and one included        *)
(***************************************************************************)
InitKeys ==
    /\ \E order \in EvictionOrders :
          task_config = [max_usage_pct |-> 50, min_avail_bytes |-> 11,
                         eviction_order |-> order]
    /\ tenant_conf = TenantConfs(NoneOpt, NoneOpt, {})
    /\ layer_conf = SpecLayers
    /\ timeline_conf = TimelineConfs(layer_conf, {})
    /\ resident \in SUBSET LayerIds
    /\ IdleState

SpecKeys == InitKeys /\ [][NextCollect]_vars

(***************************************************************************)
(* SpecLaunch: the start of the loop from                                   *)
(* launch_disk_usage_global_eviction_task on, with or without a             *)
(* configuration, the barrier released at any time or never, and the loop   *)
(* scheduled as in SpecLoop                                                 *)
(***************************************************************************)
InitLaunch ==
    /\ \E order \in {AbsoluteAccessed, RelativeAccessed(FALSE)} :
          task_config = [max_usage_pct |-> 50, min_avail_bytes |-> 3,
                         eviction_order |-> order]
    /\ tenant_conf = TenantConfs(NoneOpt, NoneOpt, {})
    /\ layer_conf = SpecLayers
    /\ timeline_conf = TimelineConfs(layer_conf, {})
    /\ resident = {"a", "b", "d"}
    /\ mutex = "free"
    /\ cancelled = FALSE
    /\ pc = [c \in Callers |-> IF c = "loop" THEN "launch" ELSE "idle"]
    /\ iteration_no = 0
    /\ http_calls = 0
    /\ usage_pre = [c \in Callers |-> NoneOpt]
    /\ collect = [c \in Callers |-> NoneOpt]
    /\ candidates = [c \in Callers |-> NoneOpt]
    /\ plan = [c \in Callers |-> NoneOpt]
    /\ exec = [c \in Callers |-> NoneOpt]
    /\ result = [c \in Callers |-> NoneOpt]
    /\ log = [c \in Callers |-> LogInit]
    /\ \E configured \in BOOLEAN, released \in BOOLEAN :
          launch = [configured |-> configured, barrier_released |-> released]
    /\ AttachmentIdle

NextLaunch ==
    \/ Launch
    \/ BarrierRelease
    \/ LaunchSelect
    \/ NextLoop

\* a step of the launcher or of the task it spawns
LaunchTask == Launch \/ LaunchSelect \/ LoopTask

LaunchFairness == WF_vars(LaunchTask) /\ WF_vars(EvictionEnds)

SpecLaunch == InitLaunch /\ [][NextLaunch]_vars /\ LaunchFairness

(***************************************************************************)
(* SpecMutex: the two callers as in Spec, with a tenant::mgr::list_tenants  *)
(* that can fail                                                            *)
(***************************************************************************)
NextMutex ==
    \/ Next
    \/ \E c \in Callers : CollectListFails(c)

SpecMutex == Init /\ [][NextMutex]_vars

(***************************************************************************)
(* SpecOwners: one call of the implementation up to the end of phase 1,     *)
(* over tenants that are missing from the registry or shutting down,        *)
(* timelines that are not active or report no max_layer_size, and           *)
(* overrides of min_resident_size                                           *)
(***************************************************************************)
\* a tenant the registry has, one it cannot hand out, and one whose own
\* token is cancelled
TenantStates ==
    {[found |-> TRUE, shutdown |-> FALSE], [found |-> FALSE, shutdown |-> FALSE],
     [found |-> TRUE, shutdown |-> TRUE]}

InitOwners ==
    /\ \E order \in {AbsoluteAccessed, RelativeAccessed(FALSE)} :
          task_config = [max_usage_pct |-> 50, min_avail_bytes |-> 11,
                         eviction_order |-> order]
    /\ \E sa \in TenantStates, sb \in TenantStates,
          overrideA \in Option(0..MaxOverride) :
          tenant_conf =
             [t \in TenantIds |->
                [found    |-> IF t = "A" THEN sa.found ELSE sb.found,
                 shutdown |-> IF t = "A" THEN sa.shutdown ELSE sb.shutdown,
                 min_resident_size_override |->
                     IF t = "A" THEN overrideA ELSE NoneOpt]]
    /\ layer_conf = SpecLayers
    /\ \E inactive \in SUBSET TimelineIds, silent \in SUBSET TimelineIds :
          timeline_conf =
             [tl \in TimelineIds |->
                [active         |-> tl \notin inactive,
                 max_layer_size |-> IF tl \in silent THEN NoneOpt
                                    ELSE MaxLayerSizeOf(layer_conf, tl)]]
    /\ resident = LayerIds
    /\ IdleState

SpecOwners == InitOwners /\ [][NextCollect]_vars

(***************************************************************************)
(* SpecEmpty: the loop of SpecLoop, scheduled in the same way, over worlds  *)
(* in which the collector finds no layer: no layer is resident, or the      *)
(* tenants are skipped                                                      *)
(***************************************************************************)
InitEmpty ==
    /\ task_config = [max_usage_pct |-> 50, min_avail_bytes |-> 3,
                      eviction_order |-> AbsoluteAccessed]
    /\ \E sa \in TenantStates, sb \in TenantStates :
          tenant_conf =
             [t \in TenantIds |->
                [found    |-> IF t = "A" THEN sa.found ELSE sb.found,
                 shutdown |-> IF t = "A" THEN sa.shutdown ELSE sb.shutdown,
                 min_resident_size_override |-> NoneOpt]]
    /\ layer_conf = SpecLayers
    /\ timeline_conf = TimelineConfs(layer_conf, {})
    /\ resident \in {{}, {"a", "b", "d"}}
    /\ IdleState

SpecEmpty == InitEmpty /\ [][NextLoop]_vars /\ LoopFairness

(***************************************************************************)
(* The example of the doc comment of collect_eviction_candidates (lines     *)
(* 586-612): tenants A and B with five layers of 100 bytes each and         *)
(* min_resident_size 150, on a filesystem that misses 300 or 900 bytes.     *)
(* last_activity_ts is written hhmm.                                        *)
(* SpecDocPlan: one call of the implementation in both cases, from try_lock *)
(* to the end of phase 1.                                                   *)
(* SpecDoc: one whole call of the implementation in the case of 300 bytes   *)
(* under AbsoluteAccessed; the spawned evictions end at any time, in any    *)
(* order, with any result.                                                  *)
(***************************************************************************)
DocLayerSize == 100
DocMinResidentSize == 150

DocLayers ==
    [Ac |-> Layer(DocLayerSize, 1830), Ab |-> Layer(DocLayerSize, 1900),
     Aa |-> Layer(DocLayerSize, 2003), Ad |-> Layer(DocLayerSize, 2030),
     Ae |-> Layer(DocLayerSize, 2058),
     Bc |-> Layer(DocLayerSize, 1829), Bb |-> Layer(DocLayerSize, 1905),
     Ba |-> Layer(DocLayerSize, 2000), Bd |-> Layer(DocLayerSize, 2040),
     Be |-> Layer(DocLayerSize, 2045)]

\* the bytes the filesystem misses in the two cases of the example
DocNeeds == {300, 900}

\* the bytes the filesystem misses in the case of the example in which the
\* reservations suffice
DocNeedsSuffice == {300}

\* a usage under pressure by min_avail_bytes alone
DocUsage(config) ==
    [config |-> config, total_bytes |-> 10000, avail_bytes |-> 1000]

InitDocWorld(orders, needs) ==
    /\ \E order \in orders, need \in needs :
          task_config = [max_usage_pct |-> 100, min_avail_bytes |-> 1000 + need,
                         eviction_order |-> order]
    /\ tenant_conf = TenantConfs(Some(DocMinResidentSize), Some(DocMinResidentSize), {})
    /\ layer_conf = DocLayers
    /\ timeline_conf =
          [tl \in TimelineIds |->
              [active |-> TRUE,
               max_layer_size |-> IF tl = "A2" THEN NoneOpt ELSE Some(DocLayerSize)]]
    /\ resident = DocLayerIds
    /\ IdleState

\* the ad-hoc caller calls the implementation once
DocCall ==
    /\ pc["http"] = "idle"
    /\ http_calls = 0
    /\ http_calls' = http_calls + 1
    /\ log' = [log EXCEPT !["http"] = LogInit]
    /\ impl_enter("http", DocUsage(task_config))
    /\ UNCHANGED <<world, resident, cancelled, iteration_no, candidates, plan, exec>>

NextDocPlan ==
    \/ DocCall
    \/ CollectTenant("http")
    \/ CollectTimeline("http")
    \/ CollectTimelineLayers("http")
    \/ CollectTenantFinish("http")
    \/ CollectReturn("http")
    \/ Plan("http")

InitDocPlan == InitDocWorld(EvictionOrders, DocNeeds)

SpecDocPlan == InitDocPlan /\ [][NextDocPlan]_vars

NextDoc ==
    \/ DocCall
    \/ CollectTenant("http")
    \/ CollectTimeline("http")
    \/ CollectTimelineLayers("http")
    \/ CollectTenantFinish("http")
    \/ CollectReturn("http")
    \/ Plan("http")
    \/ ExecPoll("http")
    \/ \E t \in 1..Cardinality(DocLayerIds), kind \in TaskOutcomes :
          TaskResolve("http", t, kind)

InitDoc == InitDocWorld({AbsoluteAccessed}, DocNeedsSuffice)

SpecDoc == InitDoc /\ [][NextDoc]_vars

(***************************************************************************)
(* SpecUsage: a Usage of filesystem_level_usage under add_available_bytes, *)
(* as in the test max_usage_pct_pressure (lines 1019-1058)                 *)
(***************************************************************************)
\* the avail_bytes the usages of SpecUsage go through
UsageAvails(total) ==
    {U64_MAX} \cup
    IF total = 100000
    THEN {0, 14000, 14999, 15000, 15001, 16000, 32000}
    ELSE 0..(total + MaxOverfull)

\* the avail_bytes a usage of SpecUsage starts from: at most an eighth of
\* the filesystem; the other values are reached by add_available_bytes
InitAvails(total) == {a \in UsageAvails(total) : a >= 0 /\ 8 * a <= total}

InitUsage ==
    /\ \E pct \in {20, 50, 85}, min_avail \in {0, 3} :
          task_config = [max_usage_pct |-> pct, min_avail_bytes |-> min_avail,
                         eviction_order |-> AbsoluteAccessed]
    /\ \E total \in TotalBytesValues \cup {100000} :
       \E avail \in InitAvails(total) :
          usage_pre = [c \in Callers |->
                          IF c = "http"
                          THEN Some([config |-> task_config, total_bytes |-> total,
                                     avail_bytes |-> avail])
                          ELSE NoneOpt]
    /\ tenant_conf = TenantConfs(NoneOpt, NoneOpt, {})
    /\ layer_conf = SpecLayers
    /\ timeline_conf = TimelineConfs(layer_conf, {})
    /\ resident = {}
    /\ mutex = "free"
    /\ cancelled = FALSE
    /\ pc = [c \in Callers |-> "idle"]
    /\ iteration_no = 0
    /\ http_calls = 0
    /\ collect = [c \in Callers |-> NoneOpt]
    /\ candidates = [c \in Callers |-> NoneOpt]
    /\ plan = [c \in Callers |-> NoneOpt]
    /\ exec = [c \in Callers |-> NoneOpt]
    /\ result = [c \in Callers |-> NoneOpt]
    /\ log = [c \in Callers |-> LogInit]
    /\ launch = Launched
    /\ \E checks \in BOOLEAN : AttachmentDown(NoFile, checks)

\* usage.add_available_bytes(bytes): a sum that leaves the u64 wraps around
\* or, in a build with overflow checks, panics, which ends the usage.  The
\* runs of SpecUsage stay within the usages of UsageAvails.
UsageAdd(bytes) ==
    /\ IsSome(usage_pre["http"])
    /\ LET u == Unwrap(usage_pre["http"])
       IN  /\ add_available_bytes(u, bytes).avail_bytes \in UsageAvails(u.total_bytes)
           /\ usage_pre' = [usage_pre EXCEPT !["http"] =
                               IF add_available_bytes_overflows(u, bytes) /\ overflow_checks
                               THEN NoneOpt
                               ELSE Some(add_available_bytes(u, bytes))]
    /\ UNCHANGED <<world, resident, mutex, cancelled, pc, iteration_no, http_calls,
                   collect, candidates, plan, exec, result, log>>

\* the bytes added: a few, as in the test, and all but a few of the u64
UsageBytes == {1, 2, 999, 1000, 14000, 16000, U64_MAX - 1, U64_MAX}

NextUsage == \E bytes \in UsageBytes : UsageAdd(bytes)

SpecUsage == InitUsage /\ [][NextUsage]_vars

(***************************************************************************)
(* Properties                                                              *)
(***************************************************************************)
\* where a caller stands while it is inside the implementation, past try_lock
InImpl == {"collect_tenant", "collect_timeline", "collect_layers", "plan", "execute"}

Others(c) == Callers \ {c}

\* C1: at most one invocation of disk_usage_eviction_task_iteration_impl,
\* from the periodic loop or from the ad-hoc caller, is past the try_lock
\* (collecting, planning or executing), and it is the holder of the mutex.
C1_AtMostOneIteration ==
    /\ Cardinality({c \in Callers : pc[c] \in InImpl}) <= 1
    /\ \A c \in Callers : pc[c] \in InImpl => mutex = c

\* one caller is inside the implementation after the other one has called
\* it too
C1_Witness ==
    \E c \in Callers : \E d \in Others(c) :
        /\ pc[c] \in InImpl
        /\ mutex = c
        /\ pc[d] = "returned"
        /\ IsSome(result[d])

\* C10: a call of the implementation made while another iteration holds the
\* mutex returns the error "iteration is already executing" in the same step:
\* it does not take the mutex, collects and plans nothing, starts no eviction,
\* and leaves every local of the running iteration, and the layers, as
\* they were.
C10_OverlapRejected ==
    [][\A d \in Callers : \A c \in Others(d) :
          (/\ mutex = c
           /\ pc[d] \in {"idle", "iteration"}
           /\ pc'[d] \notin {pc[d], "sleep"})
          => /\ pc'[d] = "returned"
             /\ result'[d] = Some([type |-> "Err",
                                   msg |-> "iteration is already executing"])
             /\ mutex' = c
             /\ collect'[d] = NoneOpt /\ candidates'[d] = NoneOpt
             /\ plan'[d] = NoneOpt /\ exec'[d] = NoneOpt
             /\ resident' = resident
             /\ pc'[c] = pc[c] /\ usage_pre'[c] = usage_pre[c]
             /\ collect'[c] = collect[c] /\ candidates'[c] = candidates[c]
             /\ plan'[c] = plan[c] /\ exec'[c] = exec[c]
             /\ result'[c] = result[c]]_vars

\* the second caller was rejected while the first has evictions in flight
C10_Witness ==
    \E c \in Callers : \E d \in Others(c) :
        /\ pc[c] = "execute"
        /\ Unwrap(exec[c]).js_running # {}
        /\ pc[d] = "returned"
        /\ result[d] = Some(ErrAlreadyExecuting)
        /\ collect[d] = NoneOpt

\* the candidates of caller c that phase 2 has taken from `evicted`
Spawned(c) == 1..Unwrap(exec[c]).evicted_next

\* the candidates of caller c that phase 1 selected
Planned(c) == 1..Unwrap(plan[c]).evicted_amount

AboveFirst(cands, taken) ==
    (\E i \in taken : cands[i].partition = "Below")
        => \A j \in 1..Len(cands) : cands[j].partition = "Above" => j \in taken

\* C2: in any iteration, if a Below candidate is planned, every Above
\* candidate of the list is planned, and if a Below candidate was handed to
\* the executor, every Above candidate was handed to it.
C2_AboveBeforeBelow ==
    \A c \in Callers :
        /\ (IsSome(candidates[c]) /\ IsSome(plan[c]))
              => AboveFirst(Unwrap(candidates[c]), Planned(c))
        /\ (IsSome(candidates[c]) /\ IsSome(exec[c]))
              => /\ AboveFirst(Unwrap(candidates[c]), Spawned(c))
                 /\ Spawned(c) \subseteq Planned(c)

\* an Above and a Below candidate were both handed to the executor, and
\* a Below candidate was left out
C2_Witness ==
    \E c \in Callers :
        /\ IsSome(candidates[c]) /\ IsSome(exec[c])
        /\ \E i, j \in Spawned(c) :
              /\ Unwrap(candidates[c])[i].partition = "Above"
              /\ Unwrap(candidates[c])[j].partition = "Below"
        /\ Unwrap(plan[c]).evicted_amount < Len(Unwrap(candidates[c]))

\* the usage phase 1 projects after the first j candidates of caller c
Projected(c, j) ==
    add_available_bytes(Unwrap(usage_pre[c]), SumSizes(Unwrap(candidates[c]), j))

\* C5: the number k of planned candidates is the smallest one for which
\* usage_pre with the sizes of the first k ranked candidates added has no
\* pressure: every shorter prefix leaves pressure, and k is the length of
\* the list if no prefix relieves it.
C5_ShortestRelievingPrefix ==
    \A c \in Callers :
        (IsSome(plan[c]) /\ IsSome(candidates[c]))
        => LET k == Unwrap(plan[c]).evicted_amount
           IN  /\ k \in 0..Len(Unwrap(candidates[c]))
               /\ \A j \in 0..(k - 1) : has_pressure(Projected(c, j))
               /\ k = Len(Unwrap(candidates[c])) \/ ~has_pressure(Projected(c, k))

\* the plan stops inside the list, after at least two candidates
C5_Witness ==
    \E c \in Callers :
        /\ IsSome(plan[c]) /\ IsSome(candidates[c])
        /\ Unwrap(plan[c]).evicted_amount >= 2
        /\ Unwrap(plan[c]).evicted_amount < Len(Unwrap(candidates[c]))

\* the planned candidates of caller c that are in partition p
PlannedIn(c, p) == {i \in Planned(c) : Unwrap(candidates[c])[i].partition = p}

\* C6: fallback_to_global_lru is Some(final projected usage) if and only if a
\* planned candidate is in the Below partition, otherwise None;
\* respecting_tenant_min_resident_size is the projected usage after exactly
\* the planned Above candidates; a Finished outcome carries this PlannedUsage.
C6_PlannedUsage ==
    \A c \in Callers :
        (IsSome(plan[c]) /\ IsSome(candidates[c]))
        => LET k  == Unwrap(plan[c]).evicted_amount
               pu == Unwrap(plan[c]).usage_planned
           IN  /\ pu.fallback_to_global_lru =
                     IF PlannedIn(c, "Below") # {} THEN Some(Projected(c, k))
                     ELSE NoneOpt
               /\ pu.respecting_tenant_min_resident_size =
                     Projected(c, Cardinality(PlannedIn(c, "Above")))
               /\ (pc[c] = "returned" /\ Unwrap(result[c]).type = "Finished")
                     => Unwrap(result[c]).planned = pu

\* a Finished outcome whose plan took Above candidates and then Below ones
C6_Witness ==
    \E c \in Callers :
        /\ pc[c] = "returned" /\ Unwrap(result[c]).type = "Finished"
        /\ PlannedIn(c, "Above") # {} /\ PlannedIn(c, "Below") # {}
        /\ IsSome(Unwrap(result[c]).planned.fallback_to_global_lru)

\* the tasks joined so far whose result counts as a failed eviction
FailedKinds == {"NotFound", "Downloaded", "Timeout"}

RECURSIVE SumOver(_, _, _)
SumOver(h, kinds, field) ==
    IF kinds = {} THEN 0
    ELSE LET kd == CHOOSE x \in kinds : TRUE
         IN  h[kd][field] + SumOver(h, kinds \ {kd}, field)

\* C7: through phase 2, usage_assumed is usage_pre with the sizes of the
\* joined successful evictions added to avail; evictions_failed counts the
\* joined NotFound, Downloaded and timed-out tasks and sums their sizes;
\* panics and other join errors change neither; a Finished outcome carries
\* these as projected_after and failed, and usage_pre as before, once every
\* planned candidate's task was joined.
C7_ExecutorAccounting ==
    \A c \in Callers :
        IsSome(exec[c])
        => LET e == Unwrap(exec[c])
               h == e.harvested
           IN  /\ e.usage_assumed =
                     add_available_bytes(Unwrap(usage_pre[c]), h["Ok"].file_sizes)
               /\ e.evictions_failed.count = SumOver(h, FailedKinds, "count")
               /\ e.evictions_failed.file_sizes = SumOver(h, FailedKinds, "file_sizes")
               /\ (pc[c] = "returned" /\ Unwrap(result[c]).type = "Finished")
                     => /\ Unwrap(result[c]).assumed.projected_after = e.usage_assumed
                        /\ Unwrap(result[c]).assumed.failed = e.evictions_failed
                        /\ Unwrap(result[c]).before = Unwrap(usage_pre[c])
                        /\ SumOver(h, EvictionResults, "count") =
                               Unwrap(plan[c]).evicted_amount

\* a Finished outcome after a timed-out eviction and a successful or
\* panicked one
C7_Witness ==
    \E c \in Callers :
        /\ pc[c] = "returned" /\ Unwrap(result[c]).type = "Finished"
        /\ Unwrap(exec[c]).harvested["Timeout"].count = 1
        /\ \/ Unwrap(exec[c]).harvested["Ok"].count = 1
           \/ Unwrap(exec[c]).harvested["Panic"].count = 1
        /\ Unwrap(result[c]).assumed.failed.count = 1

\* the candidates the collector pushed for tenant t, in the order it pushed
\* them: the tenant's layers as sorted most recently used first
TenantCandidates(c, t) ==
    LET IsOfTenant(x) == TenantOfTimeline[x.timeline] = t
    IN  SelectSeq(Unwrap(collect[c]).candidates, IsOfTenant)

\* S: the tenant's override, or the largest layer size its timelines report
MinResidentSize(t) ==
    IF IsSome(tenant_conf[t].min_resident_size_override)
    THEN Unwrap(tenant_conf[t].min_resident_size_override)
    ELSE LET sizes == {Unwrap(timeline_conf[TimelinesOf[t][n]].max_layer_size) :
                          n \in 1..Len(TimelinesOf[t])}
         IN  CHOOSE m \in sizes : \A x \in sizes : m >= x

\* with positions counted from 1, the smallest position whose inclusive
\* prefix sum exceeds S, or Len(L) + 1 if there is none
FirstExceeding(L, S) ==
    LET over == {i \in 1..Len(L) : SumSizes(L, i) > S}
    IN  IF over = {} THEN Len(L) + 1
        ELSE CHOOSE i \in over : \A x \in over : i <= x

\* L holds the resident layers of tenant t, most recently used first
IsMruListOf(L, t) ==
    /\ {L[i].layer : i \in 1..Len(L)} =
          {l \in resident : TenantOfTimeline[LayerTimeline[l]] = t}
    /\ Len(L) = Cardinality({L[i].layer : i \in 1..Len(L)})
    /\ \A i, j \in 1..Len(L) : i < j => L[i].last_activity_ts >= L[j].last_activity_ts

\* the tenants whose candidates caller c has pushed
TenantsDone(c) ==
    {TenantList[n] : n \in 1..(Unwrap(collect[c]).ti - 1)}

\* C3 as stated: the layers before the first position whose inclusive prefix
\* sum exceeds S are Below, that layer and the ones after it are Above.
C3_PartitionExclusive ==
    \A c \in Callers :
        IsSome(collect[c])
        => \A t \in TenantsDone(c) :
              LET L == TenantCandidates(c, t)
                  j == FirstExceeding(L, MinResidentSize(t))
              IN  /\ IsMruListOf(L, t)
                  /\ \A i \in 1..Len(L) :
                        L[i].partition = IF i < j THEN "Below" ELSE "Above"

\* C3: for every tenant, with L its resident layers sorted most recently
\* used first and S its min_resident_size, the layers up to and including
\* the first one whose inclusive prefix sum exceeds S are Below and the ones
\* after it are Above (all are Below if no prefix exceeds S): the Below
\* layers without the last of them total at most S, and with S = 0 the most
\* recently used layer alone is Below.
C3_PartitionInclusive ==
    \A c \in Callers :
        IsSome(collect[c])
        => \A t \in TenantsDone(c) :
              LET L == TenantCandidates(c, t)
                  S == MinResidentSize(t)
                  j == FirstExceeding(L, S)
                  below == {i \in 1..Len(L) : L[i].partition = "Below"}
              IN  /\ IsMruListOf(L, t)
                  /\ \A i \in 1..Len(L) :
                        L[i].partition = IF i <= j THEN "Below" ELSE "Above"
                  /\ \A i \in below : SumSizes(L, i - 1) <= S
                  /\ (S = 0 /\ Len(L) > 0) => below = {1}

\* tenant A was partitioned into at least two Below layers, whose sizes
\* exceed its min_resident_size, and an Above layer
C3_Witness ==
    \E c \in Callers :
        /\ IsSome(collect[c])
        /\ "A" \in TenantsDone(c)
        /\ LET L == TenantCandidates(c, "A")
           IN  /\ Len(L) = 3
               /\ L[2].partition = "Below"
               /\ L[3].partition = "Above"
               /\ SumSizes(L, 2) > MinResidentSize("A")

\* floor(100 * (1 - avail / total)) in exact arithmetic; below 0 for an
\* avail_bytes next to u64::MAX, which exceeds total_bytes
ExactUsagePct(u) ==
    IF u.avail_bytes < 0 THEN -1
    ELSE (100 * (u.total_bytes - u.avail_bytes)) \div u.total_bytes

\* C4 as stated: has_pressure is true exactly when avail_bytes is below
\* min_avail_bytes or floor(100 * (1 - avail/total)) >= max_usage_pct; with
\* total 100000, max_usage_pct 85 and min_avail_bytes 0 there is pressure
\* with avail <= 15000 and none with avail >= 15001.
C4_HasPressureExact ==
    \A c \in Callers :
        IsSome(usage_pre[c])
        => LET u == Unwrap(usage_pre[c])
           IN  /\ has_pressure(u) <=>
                     \/ u64_lt(u.avail_bytes, u.config.min_avail_bytes)
                     \/ ExactUsagePct(u) >= u.config.max_usage_pct
               /\ (/\ u.total_bytes = 100000
                   /\ u.config.max_usage_pct = 85
                   /\ u.config.min_avail_bytes = 0)
                  => (has_pressure(u) <=> ~u64_lt(15000, u.avail_bytes))

\* a step of caller c's select!: the iteration returns, or evict_layers
\* moved on (a finished task only lengthens js_ready)
SelectPolled(c) ==
    /\ pc[c] = "execute"
    /\ \/ pc'[c] # "execute"
       \/ /\ exec'[c] # exec[c]
          /\ Len(Unwrap(exec'[c]).js_ready) <= Len(Unwrap(exec[c]).js_ready)

\* the executor of caller c has candidates to spawn or tasks to join
WorkLeft(c) ==
    \/ Unwrap(exec[c]).evicted_next < Unwrap(plan[c]).evicted_amount
    \/ js_len(Unwrap(exec[c])) > 0

\* a Cancelled iteration of the loop goes to sleep without a second probe
\* and without a message
CancelledIsSilent ==
    (pc["loop"] = "returned" /\ Unwrap(result["loop"]).type = "Cancelled")
        => /\ log'["loop"] = log["loop"]
           /\ log["loop"] = [probes |-> 1,
                             msgs |-> log["loop"].msgs \
                                 {"disk usage still high",
                                  "disk usage pressure relieved"},
                             after |-> NoneOpt]

\* C8 as stated: once the token has fired with candidates left to spawn or
\* tasks in the pool, the select! returns Cancelled.
C8_AlwaysCancelled ==
    [][/\ \A c \in Callers :
            (cancelled /\ SelectPolled(c) /\ WorkLeft(c))
            => /\ pc'[c] = "returned"
               /\ result'[c] = Some([type |-> "Cancelled"])
       /\ CancelledIsSilent]_vars

\* C8: once the token has fired, the next poll of the select! ends the
\* iteration; it returns Cancelled if a planned candidate is not spawned yet
\* or a spawned task is still running, and Cancelled or Finished if every
\* planned candidate was spawned and every task has completed; a Cancelled
\* iteration makes no second probe and logs no "disk usage still high".
C8_CancelledUnlessDone ==
    [][/\ \A c \in Callers :
            (cancelled /\ SelectPolled(c))
            => /\ pc'[c] = "returned"
               /\ \/ result'[c] = Some([type |-> "Cancelled"])
                  \/ /\ Unwrap(result'[c]).type = "Finished"
                     /\ Unwrap(exec[c]).evicted_next =
                            Unwrap(plan[c]).evicted_amount
                     /\ Unwrap(exec[c]).js_running = {}
       /\ CancelledIsSilent]_vars

\* the iteration returned Cancelled from phase 2, with candidates spawned
\* and a planned candidate left
C8_Witness ==
    \E c \in Callers :
        /\ pc[c] = "returned"
        /\ result[c] = Some([type |-> "Cancelled"])
        /\ cancelled
        /\ IsSome(exec[c])
        /\ Unwrap(exec[c]).evicted_next >= 1
        /\ Unwrap(exec[c]).evicted_next < Unwrap(plan[c]).evicted_amount

\* C11: in the list collect_eviction_candidates returns, every Above
\* candidate precedes every Below candidate, in each eviction order; the
\* list holds the candidates pushed for the tenants, each once.
C11_AboveFirstInList ==
    \A c \in Callers :
        IsSome(candidates[c])
        => LET cs == Unwrap(candidates[c])
           IN  /\ \A i, j \in 1..Len(cs) :
                     (cs[i].partition = "Above" /\ cs[j].partition = "Below") => i < j
               /\ IsSome(collect[c])
                     => /\ Len(cs) = Len(Unwrap(collect[c]).candidates)
                        /\ {cs[i] : i \in 1..Len(cs)} =
                              {Unwrap(collect[c]).candidates[i] : i \in 1..Len(cs)}

\* a returned list with candidates of both tenants in which two Above
\* candidates come before Below candidates of both tenants
C11_Witness ==
    \E c \in Callers :
        /\ IsSome(candidates[c])
        /\ LET cs == Unwrap(candidates[c])
           IN  /\ Cardinality({i \in 1..Len(cs) : cs[i].partition = "Above"}) >= 2
               /\ \A t \in TenantIds :
                     \E i \in 1..Len(cs) :
                        /\ cs[i].partition = "Below"
                        /\ TenantOfTimeline[cs[i].timeline] = t

\* x has a strictly smaller key than y in the mode of the task:
\* last_activity_ts, or relative_last_activity as the number mant * 2^-exp
SmallerModeKey(x, y) ==
    IF task_config.eviction_order.type = "AbsoluteAccessed"
    THEN x.last_activity_ts < y.last_activity_ts
    ELSE LET u == x.relative_last_activity
             v == y.relative_last_activity
             m == IF u.exp < v.exp THEN u.exp ELSE v.exp
         IN  u.mant * Exp2(v.exp - m) < v.mant * Exp2(u.exp - m)

\* C12: within each partition the returned list is ascending in the mode's
\* key across all tenants: no candidate precedes a candidate of the same
\* partition with a strictly smaller last_activity_ts (AbsoluteAccessed) or
\* relative_last_activity (RelativeAccessed).
C12_SortedWithinPartition ==
    \A c \in Callers :
        IsSome(candidates[c])
        => LET cs == Unwrap(candidates[c])
           IN  \A i, j \in 1..Len(cs) :
                  (i < j /\ cs[i].partition = cs[j].partition)
                  => ~SmallerModeKey(cs[j], cs[i])

\* a returned list under RelativeAccessed in which candidates of the two
\* tenants alternate within the Below partition, with different keys
C12_Witness ==
    \E c \in Callers :
        /\ IsSome(candidates[c])
        /\ task_config.eviction_order.type = "RelativeAccessed"
        /\ LET cs == Unwrap(candidates[c])
           IN  \E i, j, k \in 1..Len(cs) :
                  /\ i < j /\ j < k
                  /\ cs[i].partition = "Below" /\ cs[k].partition = "Below"
                  /\ cs[j].partition = "Below"
                  /\ TenantOfTimeline[cs[i].timeline] = TenantOfTimeline[cs[k].timeline]
                  /\ TenantOfTimeline[cs[i].timeline] # TenantOfTimeline[cs[j].timeline]
                  /\ SmallerModeKey(cs[i], cs[j]) /\ SmallerModeKey(cs[j], cs[k])

\* the fudge of the order of the task: 0 when the highest layer count loses
\* first, 1 otherwise
Fudge ==
    IF /\ task_config.eviction_order.type = "RelativeAccessed"
       /\ task_config.eviction_order.highest_layer_count_loses_first
    THEN 0 ELSE 1

\* v is an f32 next to a / b (0 <= a, 0 < b): 0 for a = 0, else a number of
\* 24 significant bits at most half a unit of its last place from a / b
NearestF32(v, a, b) ==
    IF a = 0 THEN v.mant = 0
    ELSE /\ Exp2(23) <= v.mant /\ v.mant < Exp2(24)
         /\ LET diff == v.mant * b - a * Exp2(v.exp)
            IN  -b <= 2 * diff /\ 2 * diff <= b

\* C18: the relative_last_activity of every candidate is a number in [0,1] for
\* every order and every tenant size, zero and one resident layer included;
\* it is 0 under AbsoluteAccessed; and for each position i of a tenant with n
\* candidates try_from_normalized accepts (total - i) / total, so the
\* fallback to ZERO is not taken.
C18_KeysNormalized ==
    \A c \in Callers :
        IsSome(collect[c])
        => \A t \in TenantsDone(c) :
              LET L == TenantCandidates(c, t)
                  order == task_config.eviction_order
                  total == total_of(Len(L), order)
              IN  \A i \in 1..Len(L) :
                     /\ 0 <= L[i].relative_last_activity.mant
                     /\ L[i].relative_last_activity.mant
                           <= Exp2(L[i].relative_last_activity.exp)
                     /\ order.type = "AbsoluteAccessed"
                           => L[i].relative_last_activity.mant = 0
                     /\ IsSome(try_from_normalized(F32Div(total - (i - 1), total)))
                     /\ order.type = "RelativeAccessed"
                           => L[i].relative_last_activity.mant > 0 \/ i - 1 = total

\* under RelativeAccessed one tenant processed with no candidate, one with a
\* single candidate, and the other with three
C18_Witness ==
    \E c \in Callers :
        /\ IsSome(collect[c])
        /\ task_config.eviction_order.type = "RelativeAccessed"
        /\ TenantsDone(c) = TenantIds
        /\ \E t \in TenantIds : Len(TenantCandidates(c, t)) = 3
        /\ \E t \in TenantIds : Len(TenantCandidates(c, t)) <= 1

\* C19 as stated: under RelativeAccessed a tenant with n >= 1 candidates has
\* key (total - i) / total at position i of its MRU order, total = max(1, n - f),
\* key 1 for its MRU candidate, and for its LRU candidate key 0 when f = 1
\* and 1/n when f = 0.
C19_LruZeroWithFudge ==
    \A c \in Callers :
        (IsSome(collect[c]) /\ task_config.eviction_order.type = "RelativeAccessed")
        => \A t \in TenantsDone(c) :
              LET L == TenantCandidates(c, t)
                  n == Len(L)
                  total == Max(1, n - Fudge)
              IN  n >= 1
                  => /\ IsMruListOf(L, t)
                     /\ \A i \in 1..n :
                           NearestF32(L[i].relative_last_activity,
                                      total - (i - 1), total)
                     /\ L[1].relative_last_activity.mant
                           = Exp2(L[1].relative_last_activity.exp)
                     /\ Fudge = 1 => L[n].relative_last_activity.mant = 0
                     /\ Fudge = 0 => NearestF32(L[n].relative_last_activity, 1, n)

\* C19: under RelativeAccessed a tenant with n >= 1 candidates has key
\* (total - i) / total at position i of its MRU order, total = max(1, n - f),
\* key 1 for its MRU candidate, and for its LRU candidate key 1/n when f = 0,
\* key 0 when f = 1 and n >= 2, and key 1 when f = 1 and n = 1.
C19_RelativeKeys ==
    \A c \in Callers :
        (IsSome(collect[c]) /\ task_config.eviction_order.type = "RelativeAccessed")
        => \A t \in TenantsDone(c) :
              LET L == TenantCandidates(c, t)
                  n == Len(L)
                  total == Max(1, n - Fudge)
              IN  n >= 1
                  => /\ IsMruListOf(L, t)
                     /\ \A i \in 1..n :
                           NearestF32(L[i].relative_last_activity,
                                      total - (i - 1), total)
                     /\ L[1].relative_last_activity.mant
                           = Exp2(L[1].relative_last_activity.exp)
                     /\ (Fudge = 1 /\ n >= 2) => L[n].relative_last_activity.mant = 0
                     /\ (Fudge = 1 /\ n = 1)
                           => L[n].relative_last_activity.mant
                                 = Exp2(L[n].relative_last_activity.exp)
                     /\ Fudge = 0 => NearestF32(L[n].relative_last_activity, 1, n)

\* with fudge 1, a tenant with a single candidate and a tenant with three
C19_Witness ==
    \E c \in Callers :
        /\ IsSome(collect[c])
        /\ task_config.eviction_order.type = "RelativeAccessed"
        /\ Fudge = 1
        /\ \E t \in TenantsDone(c) : Len(TenantCandidates(c, t)) = 1
        /\ \E t \in TenantsDone(c) : Len(TenantCandidates(c, t)) = 3

\* C20 as stated: for every usage u and every n >= 0, whenever the usage after
\* add_available_bytes(n) has pressure, the usage before it had pressure.
C20_AddIsMonotone ==
    [][\A c \in Callers :
          (/\ IsSome(usage_pre[c]) /\ IsSome(usage_pre'[c])
           /\ has_pressure(Unwrap(usage_pre'[c])))
          => has_pressure(Unwrap(usage_pre[c]))]_vars

\* a usage under pressure: avail_bytes below min_avail_bytes, or the
\* percentage used at or above max_usage_pct
UnderPressure(u) ==
    \/ u.avail_bytes < u.config.min_avail_bytes
    \/ usage_pct(u.total_bytes, u.avail_bytes) >= u.config.max_usage_pct

\* caller c has no candidates, no plan and no executor
NothingStarted(c) ==
    /\ ~IsSome(collect[c]) /\ ~IsSome(candidates[c])
    /\ ~IsSome(plan[c]) /\ ~IsSome(exec[c])

\* C14: an iteration that has taken the lock with a usage without pressure
\* returns NoPressure in that same step, with no candidates collected, no
\* plan, no eviction spawned and no layer evicted; and an iteration that has
\* returned NoPressure holds none of them.
C14_NoPressureDoesNothing ==
    [][\A c \in Callers :
          /\ (/\ ~IsSome(usage_pre[c]) /\ IsSome(usage_pre'[c])
              /\ ~UnderPressure(Unwrap(usage_pre'[c])))
             => /\ pc'[c] = "returned"
                /\ result'[c] = Some([type |-> "NoPressure"])
                /\ ~IsSome(collect'[c]) /\ ~IsSome(candidates'[c])
                /\ ~IsSome(plan'[c]) /\ ~IsSome(exec'[c])
                /\ resident' = resident
                /\ mutex' = mutex
          /\ (pc[c] = "returned" /\ Unwrap(result[c]).type = "NoPressure")
             => /\ NothingStarted(c)
                /\ ~UnderPressure(Unwrap(usage_pre[c]))]_vars

\* an iteration of the loop has returned NoPressure with layers resident
\* while the ad-hoc caller is not running
C14_Witness ==
    /\ pc["loop"] = "returned"
    /\ Unwrap(result["loop"]).type = "NoPressure"
    /\ ~UnderPressure(Unwrap(usage_pre["loop"]))
    /\ resident # {}
    /\ mutex = "free"

\* the two messages of the verification after an iteration
VerifyMessages == {"disk usage still high", "disk usage pressure relieved"}

\* C15: the step that follows the return of an iteration of the loop probes
\* the filesystem once more exactly when the outcome is Finished; it then
\* logs "disk usage still high" iff the usage it measured has pressure and
\* "disk usage pressure relieved" iff it has none; after NoPressure,
\* Cancelled or an error it probes nothing and logs neither message.
C15_VerifyAfterFinished ==
    [][(pc["loop"] = "returned" /\ pc'["loop"] # "returned")
       => LET res == Unwrap(result["loop"])
              old == log["loop"]
              new == log'["loop"]
          IN  /\ old.msgs \cap VerifyMessages = {}
              /\ old.probes = 1
              /\ IF res.type = "Finished"
                 THEN /\ new.probes = old.probes + 1
                      /\ IF IsSome(new.after)
                         THEN /\ "disk usage still high" \in new.msgs
                                   <=> UnderPressure(Unwrap(new.after))
                              /\ "disk usage pressure relieved" \in new.msgs
                                   <=> ~UnderPressure(Unwrap(new.after))
                         ELSE /\ new.msgs \cap VerifyMessages = {}
                              /\ "iteration failed" \in new.msgs
                 ELSE /\ new.probes = old.probes
                      /\ ~IsSome(new.after)
                      /\ new.msgs \cap VerifyMessages = {}]_vars

\* after a Finished iteration the loop has measured a usage that has pressure
\* by max_usage_pct alone and has logged the warning
C15_Witness ==
    /\ pc["loop"] = "sleep"
    /\ log["loop"].probes = 2
    /\ IsSome(log["loop"].after)
    /\ Unwrap(log["loop"].after).avail_bytes
          >= Unwrap(log["loop"].after).config.min_avail_bytes
    /\ "disk usage still high" \in log["loop"].msgs

\* the log of an iteration whose first probe failed
ProbeFailed == [probes |-> 1, msgs |-> {"iteration failed"}, after |-> NoneOpt]

\* C16: an iteration whose statvfs probe fails goes to the sleep of the loop
\* with the warning, without taking the lock, collecting, planning or
\* evicting; the loop then does not exit unless the token has fired, and
\* otherwise goes on to the next iteration.
C16_ProbeFailureKeepsLoop ==
    [][/\ (pc["loop"] = "iteration" /\ pc'["loop"] = "sleep")
          => /\ log'["loop"] = ProbeFailed
             /\ NothingStarted("loop") /\ NothingStarted("loop")'
             /\ ~IsSome(usage_pre'["loop"]) /\ ~IsSome(result'["loop"])
             /\ resident' = resident
             /\ mutex' = mutex
             /\ iteration_no' = iteration_no + 1
       /\ (pc["loop"] = "sleep" /\ log["loop"] = ProbeFailed
              /\ pc'["loop"] # "sleep")
          => pc'["loop"] = IF cancelled THEN "exit" ELSE "iteration"]_vars

\* the loop sleeps after an iteration whose probe failed, with the token not
\* fired and iterations to come, while the ad-hoc caller evicts
C16_Witness ==
    /\ pc["loop"] = "sleep"
    /\ log["loop"] = ProbeFailed
    /\ iteration_no < MaxIterations
    /\ ~cancelled
    /\ pc["http"] = "execute"

\* C13: an executor of the loop that the token does not stop spawns every
\* planned candidate, joins every task and returns Finished, whatever the
\* results of the evictions; an iteration that has reached phase 2 never
\* returns an error.
C13_ExecuteTerminates ==
    /\ [](\A c \in Callers :
            (pc[c] = "returned" /\ IsSome(exec[c]))
            => Unwrap(result[c]).type \in {"Finished", "Cancelled"})
    /\ (pc["loop"] = "execute" /\ ~cancelled)
          ~> \/ cancelled
             \/ /\ pc["loop"] = "returned"
                /\ Unwrap(result["loop"]).type = "Finished"
                /\ Unwrap(exec["loop"]).evicted_next
                      = Unwrap(plan["loop"]).evicted_amount
                /\ ~WorkLeft("loop")

\* a Finished iteration of the loop, the token not fired, that joined a
\* successful eviction and a timeout
C13_Witness ==
    /\ pc["loop"] = "returned"
    /\ ~cancelled
    /\ Unwrap(result["loop"]).type = "Finished"
    /\ \A kind \in {"Ok", "Timeout"} :
          Unwrap(exec["loop"]).harvested[kind].count = 1

\* the loop stands before an iteration that the bound on the iterations
\* leaves out
BeyondIterations == pc["loop"] = "iteration" /\ iteration_no >= MaxIterations

\* C17: once the token has fired the loop does not go from its sleep to a
\* new iteration: the sleep ends at once with the exit of the loop; and the
\* loop exits eventually, after the iteration the token found running.
C17_CancelStopsLoop ==
    /\ [][cancelled => ~(pc["loop"] = "sleep" /\ pc'["loop"] = "iteration")]_vars
    /\ [][(cancelled /\ pc["loop"] = "sleep" /\ pc'["loop"] # "sleep")
            => (pc'["loop"] = "exit" /\ iteration_no' = iteration_no)]_vars
    /\ [][(cancelled /\ pc["loop"] \in InImpl \cup {"returned", "sleep"})
            => iteration_no' = iteration_no]_vars
    /\ (cancelled /\ ~BeyondIterations) ~> pc["loop"] = "exit"

\* the loop has exited on the token after an iteration that evicted a layer
C17_Witness ==
    /\ pc["loop"] = "exit"
    /\ cancelled
    /\ iteration_no = 1
    /\ resident # {"a", "b", "d"}

\* the layers of the candidates cs, in their order
LayersOf(cs) == [i \in 1..Len(cs) |-> cs[i].layer]

\* the bytes the usage before the iteration of caller c misses
Missing(c) ==
    Unwrap(usage_pre[c]).config.min_avail_bytes - Unwrap(usage_pre[c]).avail_bytes

\* C21: in the example of the doc comment the list has 6 Above candidates
\* followed by 4 Below candidates; with 900 bytes missing phase 1 plans 9
\* candidates, the 6 Above and the 3 first Below, logs the fallback warning
\* and reports fallback_to_global_lru as Some.
C21_ReservationInsufficient ==
    /\ IsSome(candidates["http"])
          => LET cs == Unwrap(candidates["http"])
             IN  /\ Len(cs) = 10
                 /\ \A i \in 1..10 : cs[i].partition = IF i <= 6 THEN "Above" ELSE "Below"
                 /\ \A i \in 1..10 : cs[i].file_size = DocLayerSize
    /\ (IsSome(plan["http"]) /\ Missing("http") = 900)
          => LET p == Unwrap(plan["http"])
             IN  /\ p.evicted_amount = 9
                 /\ "evicting more following global LRU policy" \in log["http"].msgs
                 /\ IsSome(p.usage_planned.fallback_to_global_lru)
                 /\ p.usage_planned.respecting_tenant_min_resident_size.avail_bytes
                       = Unwrap(usage_pre["http"]).avail_bytes + 6 * DocLayerSize
                 /\ Unwrap(p.usage_planned.fallback_to_global_lru).avail_bytes
                       = Unwrap(usage_pre["http"]).avail_bytes + 9 * DocLayerSize

\* phase 1 has planned 9 candidates in the case of 900 missing bytes, the
\* last three of them Below, and has logged the warning
C21_Witness ==
    /\ pc["http"] = "execute"
    /\ Missing("http") = 900
    /\ Unwrap(plan["http"]).evicted_amount = 9
    /\ \A i \in 7..9 : Unwrap(candidates["http"])[i].partition = "Below"
    /\ "evicting more following global LRU policy" \in log["http"].msgs

\* C22: in the example, under AbsoluteAccessed and with 300 bytes missing,
\* phase 1 plans exactly 3 candidates: the layers A/c, A/b and B/c, all
\* Above; fallback_to_global_lru is None and nothing is warned; no other
\* layer is evicted, and once the three evictions have succeeded exactly
\* these three are gone, each tenant keeping more than min_resident_size.
C22_ReservationSuffices ==
    (/\ task_config.eviction_order.type = "AbsoluteAccessed"
     /\ IsSome(plan["http"])
     /\ Missing("http") = 300)
    => LET p  == Unwrap(plan["http"])
           cs == Unwrap(candidates["http"])
           e  == Unwrap(exec["http"])
       IN  /\ p.evicted_amount = 3
           /\ {cs[i].layer : i \in 1..3} = {"Ac", "Ab", "Bc"}
           /\ \A i \in 1..3 : cs[i].partition = "Above"
           /\ ~IsSome(p.usage_planned.fallback_to_global_lru)
           /\ log["http"].msgs = {}
           /\ DocLayerIds \ resident \subseteq {"Ac", "Ab", "Bc"}
           /\ (pc["http"] = "returned" /\ e.harvested["Ok"].count = 3)
                 => resident = DocLayerIds \ {"Ac", "Ab", "Bc"}
           /\ \A t \in TenantIds :
                 Cardinality({l \in resident : TenantOfTimeline[LayerTimeline[l]] = t})
                    * DocLayerSize > DocMinResidentSize

\* the case of 300 missing bytes under AbsoluteAccessed, the three evictions
\* done
C22_Witness ==
    /\ task_config.eviction_order.type = "AbsoluteAccessed"
    /\ pc["http"] = "returned"
    /\ Missing("http") = 300
    /\ Unwrap(result["http"]).type = "Finished"
    /\ Unwrap(exec["http"]).harvested["Ok"].count = 3

\* C23 as stated, the list of the doc comment of lines 590-604: under
\* AbsoluteAccessed the list returned for the example is A/c, A/b, B/c, B/b,
\* B/a, A/a, A/d, B/d, B/e, A/e.
C23_DocOrder ==
    (task_config.eviction_order.type = "AbsoluteAccessed" /\ IsSome(candidates["http"]))
    => LayersOf(Unwrap(candidates["http"]))
          = <<"Ac", "Ab", "Bc", "Bb", "Ba", "Aa", "Ad", "Bd", "Be", "Ae">>

\* the usage phase 1 ended with
FinalPlanned(planned) ==
    IF IsSome(planned.fallback_to_global_lru)
    THEN Unwrap(planned.fallback_to_global_lru)
    ELSE planned.respecting_tenant_min_resident_size

\* the joined tasks that ended with a panic or another JoinError
JoinErrors(c) ==
    Unwrap(exec[c]).harvested["Panic"].count + Unwrap(exec[c]).harvested["Cancelled"].count

\* C24: in a Finished outcome with failed.count = 0 and no join errors,
\* assumed.projected_after is the final planned usage:
\* planned.fallback_to_global_lru when it is Some, else
\* planned.respecting_tenant_min_resident_size.
C24_AssumedEqualsPlanned ==
    \A c \in Callers :
        (/\ pc[c] = "returned"
         /\ Unwrap(result[c]).type = "Finished"
         /\ Unwrap(result[c]).assumed.failed.count = 0
         /\ JoinErrors(c) = 0)
        => Unwrap(result[c]).assumed.projected_after
              = FinalPlanned(Unwrap(result[c]).planned)

\* a Finished outcome of two or more evictions that all succeeded, the
\* second phase of the plan entered
C24_Witness ==
    \E c \in Callers :
        /\ pc[c] = "returned"
        /\ Unwrap(result[c]).type = "Finished"
        /\ Unwrap(result[c]).assumed.failed.count = 0
        /\ JoinErrors(c) = 0
        /\ Unwrap(exec[c]).harvested["Ok"].count >= 2
        /\ IsSome(Unwrap(result[c]).planned.fallback_to_global_lru)
        /\ Unwrap(result[c]).assumed.projected_after # Unwrap(result[c]).before

\* lines 713-742: the resident layers of the active timelines of tenant t
\* from timeline j on, in the order the collector reads them
RECURSIVE TenantLayersFrom(_, _)
TenantLayersFrom(t, j) ==
    IF j > Len(TimelinesOf[t]) THEN <<>>
    ELSE LET tl == TimelinesOf[t][j]
         IN  (IF timeline_conf[tl].active
              THEN get_local_layers_for_disk_usage_eviction(tl).resident_layers
              ELSE <<>>) \o TenantLayersFrom(t, j + 1)

\* lines 711-742: the max_layer_size the collector ends with for tenant t
RECURSIVE TenantMaxLayerSizeFrom(_, _)
TenantMaxLayerSizeFrom(t, j) ==
    IF j > Len(TimelinesOf[t]) THEN 0
    ELSE LET tl == TimelinesOf[t][j]
             m  == timeline_conf[tl].max_layer_size
         IN  Max(IF timeline_conf[tl].active /\ IsSome(m) THEN Unwrap(m) ELSE 0,
                 TenantMaxLayerSizeFrom(t, j + 1))

\* lines 695-834: the lists the collector can push for tenant t
TenantOutcomes(t) ==
    IF tenant_skipped(t)
    THEN {<<>>}
    ELSE {tenant_partitioned(sorted,
                             min_resident_size_of(t, TenantMaxLayerSizeFrom(t, 1)),
                             task_config.eviction_order) :
             sorted \in SortMruFirst(TenantLayersFrom(t, 1))}

\* the flat lists the collector can have after the tenants from i on
RECURSIVE PushedOutcomes(_)
PushedOutcomes(i) ==
    IF i > Len(TenantList) THEN {<<>>}
    ELSE {x \o y : x \in TenantOutcomes(TenantList[i]), y \in PushedOutcomes(i + 1)}

\* lines 682-853: the lists a pass of the collector can return in this world
CollectOutcomes ==
    UNION {SortCandidates(p, task_config.eviction_order) : p \in PushedOutcomes(1)}

\* no two resident layers of a tenant have the same last_activity_ts
NoTenantTies ==
    \A x \in resident, y \in resident :
        (/\ x # y
         /\ TenantOfTimeline[LayerTimeline[x]] = TenantOfTimeline[LayerTimeline[y]])
        => layer_conf[x].last_activity_ts # layer_conf[y].last_activity_ts

\* the candidates x and y have the same (partition, key) in the final sort
SameKey(x, y) ==
    /\ x.partition = y.partition
    /\ ~SmallerModeKey(x, y)
    /\ ~SmallerModeKey(y, x)

\* C25 as stated: every pass of the collector over the same tenants, layers,
\* sizes, timestamps and eviction order returns the same sequence of
\* candidates, also when candidates share the same (partition, key).
C25_OneOutcome ==
    IsSome(candidates["http"]) => CollectOutcomes = {Unwrap(candidates["http"])}

\* C25: when no two resident layers of a tenant share last_activity_ts,
\* every pass of the collector over the same tenants, layers, sizes,
\* timestamps and eviction order returns the same candidates with the same
\* (partition, key) at every position: the same sequence up to the order of
\* candidates that share the same (partition, key).
C25_OneOutcomeUpToTies ==
    (IsSome(candidates["http"]) /\ NoTenantTies)
    => LET K == Unwrap(candidates["http"])
       IN  \A L \in CollectOutcomes :
              /\ Len(L) = Len(K)
              /\ {L[i] : i \in 1..Len(L)} = {K[i] : i \in 1..Len(K)}
              /\ \A i \in 1..Len(K) : SameKey(L[i], K[i])

\* a returned list with two candidates of the same (partition, key), no
\* tenant having two layers of the same last_activity_ts
C25_Witness ==
    /\ IsSome(candidates["http"])
    /\ NoTenantTies
    /\ LET K == Unwrap(candidates["http"])
       IN  /\ Len(K) >= 3
           /\ \E i \in 1..Len(K) - 1 : SameKey(K[i], K[i + 1])
           /\ Cardinality(CollectOutcomes) > 1

\* caller c is in the collector at one of its two checks of the token: about
\* to visit a tenant, or waiting for the layers of an active timeline, after
\* whose return the token is checked
AtCancelCheck(c) ==
    \/ pc[c] = "collect_tenant" /\ Unwrap(collect[c]).ti <= Len(TenantList)
    \/ pc[c] = "collect_layers"

\* C26: a step of the collector at one of its checks of the token, with the
\* token cancelled, makes the iteration return Cancelled in that step: no
\* candidate list is produced, nothing is planned, no eviction is started
\* and no layer is evicted.
C26_CollectHonoursCancel ==
    [][\A c \in Callers :
          (/\ cancelled
           /\ AtCancelCheck(c)
           /\ (pc'[c] # pc[c] \/ collect'[c] # collect[c]))
          => /\ pc'[c] = "returned"
             /\ result'[c] = Some([type |-> "Cancelled"])
             /\ ~IsSome(candidates'[c])
             /\ ~IsSome(plan'[c])
             /\ ~IsSome(exec'[c])
             /\ resident' = resident]_vars

\* the iteration has returned Cancelled from the collector after the layers
\* of the first tenant were pushed
C26_Witness ==
    \E c \in Callers :
        /\ pc[c] = "returned"
        /\ result[c] = Some([type |-> "Cancelled"])
        /\ IsSome(collect[c])
        /\ Unwrap(collect[c]).ti = 2
        /\ Unwrap(collect[c]).candidates # <<>>
        /\ ~IsSome(candidates[c])
        /\ ~IsSome(exec[c])

\* the resident layers whose tenant the collector visits and whose timeline
\* is active
VisitedLayers ==
    {l \in resident :
        /\ tenant_conf[TenantOfTimeline[LayerTimeline[l]]].found
        /\ ~tenant_conf[TenantOfTimeline[LayerTimeline[l]]].shutdown
        /\ timeline_conf[LayerTimeline[l]].active}

\* C27: a tenant the registry cannot hand out or that is shutting down, and
\* a timeline that is not active, contribute no candidate, and the
\* collection does not fail: the returned list holds, once each, exactly the
\* resident layers of the active timelines of the other tenants, and no
\* error is returned.
C27_SkippedOwners ==
    /\ IsSome(candidates["http"])
          => LET K == Unwrap(candidates["http"])
             IN  /\ {K[i].layer : i \in 1..Len(K)} = VisitedLayers
                 /\ Len(K) = Cardinality(VisitedLayers)
    /\ IsSome(collect["http"])
          => LET P == Unwrap(collect["http"]).candidates
             IN  {P[i].layer : i \in 1..Len(P)} \subseteq VisitedLayers
    /\ result["http"] = NoneOpt

\* a list was returned from a world with a skipped tenant, an inactive
\* timeline of the other tenant and candidates of that tenant's active
\* timeline
C27_Witness ==
    /\ IsSome(candidates["http"])
    /\ tenant_conf["B"].shutdown
    /\ ~timeline_conf["A2"].active
    /\ {Unwrap(candidates["http"])[i].layer :
           i \in 1..Len(Unwrap(candidates["http"]))} = {"a", "b"}

\* the sizes the active timelines of tenant t report as max_layer_size
ReportedSizes(t) ==
    {Unwrap(timeline_conf[TimelinesOf[t][n]].max_layer_size) :
        n \in {x \in 1..Len(TimelinesOf[t]) :
                 /\ timeline_conf[TimelinesOf[t][x]].active
                 /\ IsSome(timeline_conf[TimelinesOf[t][x]].max_layer_size)}}

\* the min_resident_size of tenant t as the claim states it
StatedMinResidentSize(t) ==
    IF IsSome(tenant_conf[t].min_resident_size_override)
    THEN Unwrap(tenant_conf[t].min_resident_size_override)
    ELSE IF ReportedSizes(t) = {} THEN 0
    ELSE CHOOSE m \in ReportedSizes(t) : \A x \in ReportedSizes(t) : m >= x

\* C28: the min_resident_size a tenant is partitioned with is its override
\* when one is set, also when that is smaller than the largest layer, and
\* otherwise the largest max_layer_size its active timelines report, 0 when
\* none reports one: a candidate is Above exactly when the sizes of the
\* tenant's candidates before it exceed that value.
C28_MinResidentSize ==
    IsSome(collect["http"])
    => \A t \in TenantsDone("http") :
          LET L == TenantCandidates("http", t)
          IN  \A i \in 1..Len(L) :
                 L[i].partition = "Above"
                    <=> SumSizes(L, i - 1) > StatedMinResidentSize(t)

\* tenant A has an override below its largest layer and a candidate that is
\* Above by the override and would be Below by the largest layer; tenant B
\* has no override, its timeline reports no max_layer_size, and its second
\* candidate is Above
C28_Witness ==
    /\ IsSome(candidates["http"])
    /\ IsSome(tenant_conf["A"].min_resident_size_override)
    /\ LET L == TenantCandidates("http", "A")
           S == Unwrap(tenant_conf["A"].min_resident_size_override)
       IN  /\ ReportedSizes("A") # {}
           /\ \E i \in 1..Len(L) :
                 /\ L[i].partition = "Above"
                 /\ SumSizes(L, i - 1) > S
                 /\ \A m \in ReportedSizes("A") : SumSizes(L, i - 1) <= m
    /\ ReportedSizes("B") = {}
    /\ Len(TenantCandidates("http", "B")) = 2
    /\ TenantCandidates("http", "B")[2].partition = "Above"

\* the tasks in the JoinSet of the executor state e
InJoinSet(e) == e.js_running \cup {e.js_ready[i].task : i \in 1..Len(e.js_ready)}

\* C30: with k the number of planned candidates, the executor takes the
\* candidates one at a time in rank order and spawns one task for each: a
\* step adds at most one task to the JoinSet, the one of the candidate
\* after the last one taken; no candidate after the first k is taken; every
\* task in the JoinSet is of a taken candidate and is there once; a Finished
\* iteration has taken and joined all k, a cancelled one a prefix of them.
C30_PlannedPrefix ==
    /\ [](\A c \in Callers :
            IsSome(exec[c])
            => LET e == Unwrap(exec[c])
                   k == Unwrap(plan[c]).evicted_amount
               IN  /\ e.evicted_next <= k
                   /\ k <= Len(Unwrap(candidates[c]))
                   /\ InJoinSet(e) \subseteq Spawned(c)
                   /\ Cardinality(InJoinSet(e)) = js_len(e)
                   /\ (pc[c] = "returned" /\ Unwrap(result[c]).type = "Finished")
                         => /\ e.evicted_next = k
                            /\ SumOver(e.harvested, EvictionResults, "count") = k)
    /\ [][\A c \in Callers :
            (pc[c] = "execute" /\ IsSome(exec'[c]))
            => LET e   == Unwrap(exec[c])
                   f   == Unwrap(exec'[c])
                   new == InJoinSet(f) \ InJoinSet(e)
               IN  /\ f.evicted_next \in {e.evicted_next, e.evicted_next + 1}
                   /\ new \subseteq {e.evicted_next + 1}
                   /\ f.evicted_next = e.evicted_next => new = {}
                   /\ (f.evicted_next # e.evicted_next /\ pc'[c] = "execute")
                         => new = {e.evicted_next + 1}]_vars

\* a Finished iteration that took two planned candidates, one after the
\* other, and left the ones ranked after them alone
C30_Witness ==
    \E c \in Callers :
        /\ pc[c] = "returned"
        /\ Unwrap(result[c]).type = "Finished"
        /\ Unwrap(plan[c]).evicted_amount = 2
        /\ Unwrap(exec[c]).evicted_next = 2
        /\ Len(Unwrap(candidates[c])) > 2

\* the two waits of the task before its loop
StartupWaits == {"barrier", "init_delay"}

\* C29: without a configuration the loop is never started; with one, the
\* first iteration starts only from the end of the initial delay, which is
\* entered only from the select! with the barrier released; and when the
\* token is cancelled during the wait for the barrier or during the initial
\* delay, the task ends without having started an iteration.
C29_StartupPreconditions ==
    /\ [](~launch.configured
            => /\ pc["loop"] \in {"launch", "not_started"}
               /\ iteration_no = 0)
    /\ [](pc["loop"] \in {"launch", "not_started", "exit"} \cup StartupWaits
            \/ (launch.configured /\ launch.barrier_released))
    /\ [](pc["loop"] \in {"launch", "not_started"} \cup StartupWaits
            => iteration_no = 0)
    /\ [][/\ pc'["loop"] = "init_delay" /\ pc["loop"] # "init_delay"
             => pc["loop"] = "barrier" /\ launch.barrier_released
          /\ (pc'["loop"] = "iteration" /\ iteration_no = 0 /\ pc["loop"] # "iteration")
             => pc["loop"] = "init_delay" /\ ~cancelled
          /\ iteration_no' # iteration_no
             => pc["loop"] = "iteration" /\ iteration_no' = iteration_no + 1
          /\ (cancelled /\ pc["loop"] \in StartupWaits)
             => pc'["loop"] \in StartupWaits \cup {"exit"}
          /\ pc["loop"] \in {"exit", "not_started"}
             => pc'["loop"] = pc["loop"] /\ iteration_no' = iteration_no]_vars
    /\ ((cancelled /\ pc["loop"] \in StartupWaits)
            ~> (pc["loop"] = "exit" /\ iteration_no = 0))

\* the token was cancelled while the task waited for a barrier that is
\* still held, and the task has ended without an iteration
C29_Witness ==
    /\ launch.configured
    /\ ~launch.barrier_released
    /\ cancelled
    /\ pc["loop"] = "exit"
    /\ iteration_no = 0

\* C31: the step in which the iteration returns Cancelled from the execute
\* phase leaves no eviction task in the pool; an iteration that is not in
\* its execute phase has no task in the pool, and only a step of the execute
\* phase takes a planned candidate, so none is spawned after the return;
\* and a layer that was evicted is never resident again.
C31_CancelAbortsPool ==
    /\ [](\A c \in Callers :
            (IsSome(exec[c]) /\ pc[c] # "execute") => InJoinSet(Unwrap(exec[c])) = {})
    /\ [][/\ \A c \in Callers :
               /\ (/\ pc[c] = "execute" /\ pc'[c] = "returned"
                   /\ result'[c] = Some([type |-> "Cancelled"]))
                  => /\ cancelled
                     /\ InJoinSet(Unwrap(exec'[c])) = {}
                     /\ Unwrap(exec'[c]).evicted_next
                           \in {Unwrap(exec[c]).evicted_next,
                                Unwrap(exec[c]).evicted_next + 1}
                     /\ resident' = resident
               /\ (IsSome(exec[c]) /\ IsSome(exec'[c]) /\ pc[c] # "execute")
                  => Unwrap(exec'[c]).evicted_next = Unwrap(exec[c]).evicted_next
          /\ resident' \subseteq resident]_vars

\* the iteration returned Cancelled from the execute phase after one
\* eviction had succeeded and been joined, with a planned candidate left
C31_Witness ==
    \E c \in Callers :
        /\ pc[c] = "returned"
        /\ result[c] = Some([type |-> "Cancelled"])
        /\ IsSome(exec[c])
        /\ Unwrap(exec[c]).harvested["Ok"].count = 1
        /\ Unwrap(exec[c]).evicted_next = 2
        /\ Unwrap(plan[c]).evicted_amount = 2
        /\ ~Unwrap(exec[c]).finished
        /\ Unwrap(candidates[c])[1].layer \notin resident

\* C32: within each tenant the Below candidates are a prefix of the tenant's
\* candidates in the order the collector pushed them, which is most
\* recently used first; so in the returned list no Above candidate of a
\* tenant has a later last_activity_ts than a Below candidate of that
\* tenant.
C32_BelowIsMruPrefix ==
    /\ IsSome(collect["http"])
          => \A t \in TenantsDone("http") :
                LET L == TenantCandidates("http", t)
                IN  \A i, j \in 1..Len(L) :
                       i < j => /\ L[i].last_activity_ts >= L[j].last_activity_ts
                                /\ L[j].partition = "Below" => L[i].partition = "Below"
    /\ IsSome(candidates["http"])
          => LET K == Unwrap(candidates["http"])
             IN  \A i, j \in 1..Len(K) :
                    (/\ TenantOfTimeline[K[i].timeline] = TenantOfTimeline[K[j].timeline]
                     /\ K[i].partition = "Above"
                     /\ K[j].partition = "Below")
                    => K[i].last_activity_ts <= K[j].last_activity_ts

\* a returned list in which tenant A has two Below candidates and an Above
\* candidate that is older than both
C32_Witness ==
    /\ IsSome(candidates["http"])
    /\ LET L == TenantCandidates("http", "A")
       IN  /\ Len(L) = 3
           /\ L[1].partition = "Below" /\ L[2].partition = "Below"
           /\ L[3].partition = "Above"
           /\ L[2].last_activity_ts > L[3].last_activity_ts

\* C33: when an iteration returns Finished, none of its eviction tasks is in
\* flight, all k planned candidates were taken and their k tasks joined,
\* successes + failed.count + join errors = k, and without join errors
\* projected_after.avail + failed.file_sizes is before.avail plus the file
\* sizes of the first k candidates.
C33_OutcomeConservation ==
    \A c \in Callers :
        (pc[c] = "returned" /\ Unwrap(result[c]).type = "Finished")
        => LET e == Unwrap(exec[c])
               k == Unwrap(plan[c]).evicted_amount
               r == Unwrap(result[c])
           IN  /\ InJoinSet(e) = {}
               /\ e.evicted_next = k
               /\ SumOver(e.harvested, EvictionResults, "count") = k
               /\ e.harvested["Ok"].count + r.assumed.failed.count + JoinErrors(c) = k
               /\ JoinErrors(c) = 0
                     => r.assumed.projected_after.avail_bytes + r.assumed.failed.file_sizes
                           = r.before.avail_bytes + SumSizes(Unwrap(candidates[c]), k)

\* a Finished outcome of two evictions without join errors, one successful
\* and one that failed
C33_Witness ==
    \E c \in Callers :
        /\ pc[c] = "returned"
        /\ Unwrap(result[c]).type = "Finished"
        /\ Unwrap(plan[c]).evicted_amount = 2
        /\ Unwrap(exec[c]).harvested["Ok"].count = 1
        /\ Unwrap(exec[c]).harvested["Downloaded"].count = 1
        /\ Unwrap(result[c]).assumed.failed.count = 1

\* C34: the mutex is held only by a caller that is inside the
\* implementation; the step in which an iteration returns, whatever it
\* returns, leaves the mutex not held by it; and a call is rejected as
\* overlapping only while the other caller is inside the implementation.
C34_MutexReleased ==
    /\ [](\A c \in Callers : mutex = c => pc[c] \in InImpl)
    /\ [][\A c \in Callers :
            /\ (pc[c] # "returned" /\ pc'[c] = "returned")
               => /\ mutex' # c
                  /\ pc[c] \in InImpl => mutex' = "free"
            /\ (pc[c] # "returned" /\ result'[c] = Some(ErrAlreadyExecuting))
               => \E d \in Others(c) : mutex = d /\ pc[d] \in InImpl]_vars

\* the second iteration of the loop took the mutex and has returned the
\* error of the collection, and the mutex is free
C34_Witness ==
    /\ iteration_no = 2
    /\ pc["loop"] = "returned"
    /\ result["loop"] = Some(ErrListTenants)
    /\ mutex = "free"

\* C35: for every tenant the collector visited that has a candidate, and
\* every min_resident_size, the tenant's first candidate in the order most
\* recently used first is Below, and no candidate of the tenant is more
\* recently used than it.
C35_MruLayerIsBelow ==
    IsSome(collect["http"])
    => \A t \in TenantsDone("http") :
          LET L == TenantCandidates("http", t)
          IN  Len(L) >= 1
              => /\ L[1].partition = "Below"
                 /\ \A i \in 1..Len(L) :
                       L[i].last_activity_ts <= L[1].last_activity_ts

\* tenant A is partitioned with min_resident_size 0, smaller than its most
\* recently used layer, which is Below while the next one is Above
C35_Witness ==
    /\ IsSome(candidates["http"])
    /\ tenant_conf["A"].min_resident_size_override = Some(0)
    /\ LET L == TenantCandidates("http", "A")
       IN  /\ Len(L) >= 2
           /\ L[1].partition = "Below"
           /\ L[1].file_size > 0
           /\ L[2].partition = "Above"

\* caller c has an empty list of candidates
NothingToEvict(c) == candidates[c] = Some(<<>>)

\* C36: an iteration under pressure whose collector returned an empty list
\* plans nothing (respecting_tenant_min_resident_size is the usage it
\* started with, fallback_to_global_lru is None), spawns no task, returns
\* nothing but Finished or, with the token cancelled, Cancelled, and its
\* Finished outcome has projected_after = before and failed = {0, 0};
\* unless the token is cancelled it does return Finished.
C36_NothingToEvict ==
    /\ [](NothingToEvict("loop")
            => LET before == Unwrap(usage_pre["loop"])
               IN  /\ has_pressure(before)
                   /\ IsSome(plan["loop"])
                         => /\ Unwrap(plan["loop"]).evicted_amount = 0
                            /\ Unwrap(plan["loop"]).usage_planned =
                                  [respecting_tenant_min_resident_size |-> before,
                                   fallback_to_global_lru |-> NoneOpt]
                   /\ IsSome(exec["loop"])
                         => /\ Unwrap(exec["loop"]).evicted_next = 0
                            /\ InJoinSet(Unwrap(exec["loop"])) = {}
                   /\ pc["loop"] = "returned"
                         => \/ cancelled /\ result["loop"] = Some([type |-> "Cancelled"])
                            \/ result["loop"] =
                                  Some([type    |-> "Finished",
                                        before  |-> before,
                                        planned |->
                                          [respecting_tenant_min_resident_size |-> before,
                                           fallback_to_global_lru |-> NoneOpt],
                                        assumed |->
                                          [projected_after |-> before,
                                           failed |-> [file_sizes |-> 0, count |-> 0]]]))
    /\ ((NothingToEvict("loop") /\ pc["loop"] \in {"plan", "execute"})
            ~> (cancelled \/ (/\ pc["loop"] = "returned"
                              /\ Unwrap(result["loop"]).type = "Finished")))

\* the loop returned Finished from an iteration under pressure that had
\* nothing to evict, the token not cancelled
C36_Witness ==
    /\ NothingToEvict("loop")
    /\ ~cancelled
    /\ pc["loop"] = "returned"
    /\ Unwrap(result["loop"]).type = "Finished"
    /\ has_pressure(Unwrap(result["loop"]).before)
    /\ Unwrap(exec["loop"]).finished

(***************************************************************************)
(* The attachment service (control_plane/src/bin/attachment_service.rs).   *)
(* main loads the tenants from the file at args.path, or starts without    *)
(* tenants when there is no file, and serves four handlers.  Every handler *)
(* parses its request, takes State::inner (a tokio RwLock) and works on    *)
(* the tenants under the lock; attach-hook and re-attach save the tenants  *)
(* to the file before they return.  A signal ends the process.             *)
(*                                                                         *)
(* A generation is a u32.  It is written as the 32-bit pattern read as a   *)
(* signed integer: 0 .. 2147483647 are themselves and -1 is 4294967295.    *)
(***************************************************************************)
NodeIds == {1, 2}

\* the largest generation below 2^31 that the service issues in the runs of
\* SpecAttach
MaxGeneration == 2

\* the requests the service receives in the runs of SpecAttach
MaxRequests == 3

\* the times the process is started in the runs of SpecAttach
MaxStarts == 2

\* u32::MAX, 4294967295
U32_MAX == -1

\* a <= b on u32
u32_le(a, b) == IF (a < 0) = (b < 0) THEN a <= b ELSE a >= 0

\* the generations of the runs of SpecAttach: the smallest and the two
\* largest of u32
Generations == (0..MaxGeneration) \cup {U32_MAX - 1, U32_MAX}

\* lines 55-62
TenantState(ps, gen) == [pageserver |-> ps, generation |-> gen]

\* lines 175 and 237: generation += 1, the sum modulo 2^32 in a build
\* without overflow checks
generation_incremented(g) ==
    IF g = 2147483647 THEN -2147483647 - 1 ELSE g + 1

\* lines 175 and 237: generation += 1 overflows, a panic in a build with
\* overflow checks
add_overflows(g) == g = U32_MAX

\* lines 64-74: hex::encode of a tenant id
hex_encode(t) == IF t = "A" THEN "0a" ELSE "0b"

\* lines 84-88: TenantId::from_hex takes the digits in either case, an error
\* on other strings
from_hex(k) ==
    IF k \in {"0a", "0A"} THEN Some("A")
    ELSE IF k \in {"0b", "0B"} THEN Some("B")
    ELSE NoneOpt

\* lines 64-74
to_hex_map(tn) ==
    IF DOMAIN tn = {} THEN << >>
    ELSE [k \in {hex_encode(t) : t \in DOMAIN tn} |->
             tn[CHOOSE t \in DOMAIN tn : hex_encode(t) = k]]

\* lines 76-90: the maps from_hex_map may return, or None for the error of
\* from_hex.  Of two keys that are the hex of one tenant the HashMap keeps
\* the value collected last, and into_iter() of a HashMap has no fixed order.
from_hex_map(hex_map) ==
    IF DOMAIN hex_map = {} THEN {Some(<< >>)}
    ELSE IF \E k \in DOMAIN hex_map : from_hex(k) = NoneOpt THEN {NoneOpt}
    ELSE LET ids == {Unwrap(from_hex(k)) : k \in DOMAIN hex_map}
             last == {l \in [ids -> DOMAIN hex_map] :
                         \A t \in ids : from_hex(l[t]) = Some(t)}
         IN  {Some([t \in ids |-> hex_map[l[t]]]) : l \in last}

\* lines 103-108: the file after save() has written it
save(tn) == Json(to_hex_map(tn))

\* lines 110-115: the results load may give
load(file) ==
    IF file.kind = "missing" THEN {[type |-> "Err", kind |-> "NotFound"]}
    ELSE IF file.kind = "undecodable" THEN {[type |-> "Err", kind |-> "Other"]}
    ELSE {IF decoded = NoneOpt
          THEN [type |-> "Err", kind |-> "Other"]
          ELSE [type |-> "Ok", tenants |-> Unwrap(decoded)] :
             decoded \in from_hex_map(file.tenants)}

\* lines 117-138: the tenants the service may start with, or None for the
\* panic
load_or_new(file) ==
    {IF loaded.type = "Ok" THEN Some(loaded.tenants)
     ELSE IF loaded.kind = "NotFound" THEN Some(<< >>)
     ELSE NoneOpt : loaded \in load(file)}

\* the files the service is first started on
InitFiles ==
    {NoFile, Undecodable,
     Json("0a" :> TenantState(Some(1), 1)),
     Json("0a" :> TenantState(Some(1), U32_MAX - 1)),
     Json("0a" :> TenantState(Some(1), U32_MAX)),
     Json(("0a" :> TenantState(Some(1), 1)) @@ ("0A" :> TenantState(Some(2), 2))),
     Json("zz" :> TenantState(NoneOpt, 0))}

\* the TenantShardId of a request: the tenant and its shard
TenantShardIds ==
    {[tenant_id |-> t, shard |-> "unsharded"] : t \in TenantIds}
        \cup {[tenant_id |-> "A", shard |-> "0102"]}

AttachHookRequests == [tenant_id : TenantIds, node_id : Option(NodeIds)]
ReAttachRequests == [node_id : NodeIds]
ValidateRequestTenants ==
    [id : TenantShardIds, gen : (0..MaxGeneration) \cup {U32_MAX}]
ValidateRequests ==
    [tenants :
        {<<e>> : e \in {x \in ValidateRequestTenants : x.id.shard # "unsharded"}}
            \cup {<<a, b>> :
                    a \in {e \in ValidateRequestTenants :
                             e.id = [tenant_id |-> "A", shard |-> "unsharded"]},
                    b \in {e \in ValidateRequestTenants :
                             /\ e.id = [tenant_id |-> "B", shard |-> "unsharded"]
                             /\ e.gen \in 1..MaxGeneration}}]
InspectRequests == [tenant_id : TenantIds]

RequestKinds == {"attach_hook", "re_attach", "validate", "inspect"}

RequestsOf(kind) ==
    CASE kind = "attach_hook" -> AttachHookRequests
      [] kind = "re_attach"   -> ReAttachRequests
      [] kind = "validate"    -> ValidateRequests
      [] kind = "inspect"     -> InspectRequests

\* json_response(StatusCode::OK, body)
Ok(body) == [status |-> 200, body |-> body]

\* save() failed: map_err(ApiError::InternalServerError)?
InternalServerError == [status |-> 500, body |-> NoneOpt]

\* the handler panicked: the request gets no response
Panicked == [status |-> 0, body |-> NoneOpt]

\* lines 228-234: entry(tenant_id).or_insert_with(..)
or_insert_with(tn, req) ==
    IF req.tenant_id \in DOMAIN tn THEN tn
    ELSE tn @@ (req.tenant_id :> TenantState(req.node_id, 0))

\* lines 228-256: the tenants after handle_attach_hook has worked on them
attach_hook(tn, req) ==
    LET inserted == or_insert_with(tn, req)
        tenant_state == inserted[req.tenant_id]
        generation == IF IsSome(req.node_id)
                      THEN generation_incremented(tenant_state.generation)
                      ELSE tenant_state.generation
    IN  [inserted EXCEPT ![req.tenant_id] = TenantState(req.node_id, generation)]

\* lines 268-273: AttachHookResponse
AttachHookResponse(req, generation) ==
    [gen |-> IF IsSome(req.node_id) THEN Some(generation) ELSE NoneOpt]

\* lines 173-182: the tenants after the loop of handle_re_attach
re_attach(tn, req) ==
    [t \in DOMAIN tn |->
        IF tn[t].pageserver = Some(req.node_id)
        THEN [tn[t] EXCEPT !.generation = generation_incremented(@)]
        ELSE tn[t]]

\* the orders in which a HashMap may yield the keys S
IterationOrders(S) ==
    {order \in [1..Cardinality(S) -> S] :
        \A i, j \in 1..Cardinality(S) : i # j => order[i] # order[j]}

\* lines 173-175: the places of the order at which generation += 1 overflows
Overflowing(tn, req, order) ==
    {i \in 1..Len(order) :
        /\ tn[order[i]].pageserver = Some(req.node_id)
        /\ add_overflows(tn[order[i]].generation)}

\* lines 173-182: the tenants when the loop of handle_re_attach panics at
\* place i of the order
re_attach_until(tn, req, order, i) ==
    [t \in DOMAIN tn |->
        IF /\ tn[t].pageserver = Some(req.node_id)
           /\ \E j \in 1..(i - 1) : order[j] = t
        THEN [tn[t] EXCEPT !.generation = generation_incremented(@)]
        ELSE tn[t]]

\* lines 170-182: the ReAttachResponse built by the loop that left the
\* tenants as tn, when the HashMap yields the tenants in the given order
ReAttachResponse(tn, req, order) ==
    LET pushed == SelectSeq(order,
                            LAMBDA t : tn[t].pageserver = Some(req.node_id))
    IN  [tenants |->
            [i \in 1..Len(pushed) |->
                [id  |-> [tenant_id |-> pushed[i], shard |-> "unsharded"],
                 gen |-> tn[pushed[i]].generation]]]

\* a validate that accepts every generation up to the latest
validate_accepts_older(tn, req) ==
    LET known == SelectSeq(req.tenants,
                           LAMBDA e : e.id.tenant_id \in DOMAIN tn)
    IN  [tenants |->
            [i \in 1..Len(known) |->
                [id    |-> known[i].id,
                 valid |-> u32_le(known[i].gen,
                                  tn[known[i].id.tenant_id].generation)]]]

\* lines 196-215: the ValidateResponse
validate(tn, req) ==
    LET known == SelectSeq(req.tenants,
                           LAMBDA e : e.id.tenant_id \in DOMAIN tn)
    IN  [tenants |->
            [i \in 1..Len(known) |->
                [id    |-> known[i].id,
                 valid |-> tn[known[i].id.tenant_id].generation = known[i].gen]]]

\* lines 281-287: the InspectResponse
inspect(tn, req) ==
    [attachment |->
        IF req.tenant_id \in DOMAIN tn /\ IsSome(tn[req.tenant_id].pageserver)
        THEN Some(<<tn[req.tenant_id].generation,
                    Unwrap(tn[req.tenant_id].pageserver)>>)
        ELSE NoneOpt]

\* lines 168, 226 and 280: inner.write().await returns when no request
\* holds the lock
write_granted(lock) == lock = NoneOpt

\* line 194: inner.read().await returns when no request holds the lock for
\* writing
read_granted(lock) == lock = NoneOpt

\* the generations of tenant t that a response hands out
IssuedBy(kind, req, response, t) ==
    IF response.status # 200 THEN << >>
    ELSE IF kind = "attach_hook"
    THEN IF req.tenant_id = t /\ IsSome(response.body.gen)
         THEN <<Unwrap(response.body.gen)>> ELSE << >>
    ELSE IF kind = "re_attach"
    THEN LET mine == SelectSeq(response.body.tenants,
                               LAMBDA e : e.id.tenant_id = t)
         IN  IF mine # << >> THEN <<mine[1].gen>> ELSE << >>
    ELSE << >>

\* the handler of request r returns the response
Respond(r, response) ==
    LET kind == requests[r].kind
        req == Unwrap(requests[r].req)
    IN  /\ returned' = Some([kind |-> kind, response |-> response])
        /\ issued' = [t \in TenantIds |->
                        issued[t] \o IssuedBy(kind, req, response, t)]
        /\ requests' = [requests EXCEPT ![r] = NoRequest]

\* lines 315-326: main loads the state and serves, or panics in load_or_new
Start ==
    /\ service \in {"down", "panicked"}
    /\ starts < MaxStarts
    /\ starts' = starts + 1
    /\ \E loaded \in load_or_new(state_file) :
          IF IsSome(loaded)
          THEN /\ tenants' = Unwrap(loaded)
               /\ service' = "serving"
          ELSE /\ service' = "panicked"
               /\ UNCHANGED tenants
    /\ UNCHANGED <<pageserver, rwlock, requests, returned, issued, arrivals,
                   state_file, overflow_checks>>

\* lines 328-334: a signal ends the process; a save under way may leave the
\* file as it was, half written or written
Exit ==
    /\ service = "serving"
    /\ service' = "down"
    /\ tenants' = << >>
    /\ rwlock' = NoneOpt
    /\ requests' = [r \in RequestIds |-> NoRequest]
    /\ IF \E r \in RequestIds : requests[r].pc = "saving"
       THEN state_file' \in {state_file, Undecodable, save(tenants)}
       ELSE UNCHANGED state_file
    /\ UNCHANGED <<pageserver, returned, issued, arrivals, starts,
                   overflow_checks>>

\* lines 165, 192, 223 and 277: a request arrives and json_request parses it
Arrive(r) ==
    /\ service = "serving"
    /\ requests[r].pc = "idle"
    /\ arrivals < MaxRequests
    /\ arrivals' = arrivals + 1
    /\ \E kind \in RequestKinds : \E req \in RequestsOf(kind) :
          requests' = [requests EXCEPT ![r] =
                          [pc |-> "parsed", kind |-> kind, req |-> Some(req),
                           local |-> NoneOpt]]
    /\ UNCHANGED <<pageserver, tenants, rwlock, returned, issued, state_file,
                   service, starts, overflow_checks>>

\* lines 225-257: handle_attach_hook from the write lock to the call of save
AttachHookLocked(r) ==
    /\ service = "serving"
    /\ requests[r].pc = "parsed"
    /\ requests[r].kind = "attach_hook"
    /\ write_granted(rwlock)
    /\ LET req == Unwrap(requests[r].req)
           locked == attach_hook(tenants, req)
           generation == locked[req.tenant_id].generation
       IN  /\ IsSome(req.node_id)
              => LET before == or_insert_with(tenants, req)[req.tenant_id].generation
                 IN  /\ add_overflows(before) => ~overflow_checks
                     /\ generation \in Generations
           /\ tenants' = locked
           /\ requests' = [requests EXCEPT ![r].pc = "saving",
                                           ![r].local = Some(generation)]
    /\ rwlock' = Some(r)
    /\ UNCHANGED <<pageserver, returned, issued, arrivals, state_file, service,
                   starts, overflow_checks>>

\* lines 225-237: generation += 1 overflows and panics; the entry is in the
\* map, the lock is dropped, the request gets no response
AttachHookPanics(r) ==
    /\ service = "serving"
    /\ overflow_checks
    /\ requests[r].pc = "parsed"
    /\ requests[r].kind = "attach_hook"
    /\ write_granted(rwlock)
    /\ LET req == Unwrap(requests[r].req)
           inserted == or_insert_with(tenants, req)
       IN  /\ IsSome(req.node_id)
           /\ add_overflows(inserted[req.tenant_id].generation)
           /\ tenants' = inserted
    /\ Respond(r, Panicked)
    /\ UNCHANGED <<pageserver, rwlock, arrivals, state_file, service, starts, overflow_checks>>

\* lines 103-108 and 184, 266: save() has written the file, or has failed and
\* left the file as it was or half written
Saved(ok) ==
    IF ok THEN state_file' = save(tenants)
    ELSE state_file' \in {state_file, Undecodable}

\* lines 266-274: save returns, the handler answers and drops the lock
AttachHookReturn(r) ==
    /\ service = "serving"
    /\ requests[r].pc = "saving"
    /\ requests[r].kind = "attach_hook"
    /\ \E ok \in BOOLEAN :
          /\ Saved(ok)
          /\ Respond(r, IF ok
                        THEN Ok(AttachHookResponse(Unwrap(requests[r].req),
                                                   Unwrap(requests[r].local)))
                        ELSE InternalServerError)
    /\ rwlock' = NoneOpt
    /\ UNCHANGED <<pageserver, tenants, arrivals, service, starts,
                   overflow_checks>>

\* lines 167-182: handle_re_attach from the write lock to the call of save
ReAttachLocked(r) ==
    /\ service = "serving"
    /\ requests[r].pc = "parsed"
    /\ requests[r].kind = "re_attach"
    /\ write_granted(rwlock)
    /\ LET req == Unwrap(requests[r].req)
           locked == re_attach(tenants, req)
       IN  /\ \A t \in DOMAIN locked :
                 locked[t] # tenants[t]
                 => /\ add_overflows(tenants[t].generation) => ~overflow_checks
                    /\ locked[t].generation \in Generations
           /\ tenants' = locked
           /\ \E order \in IterationOrders(DOMAIN locked) :
                 requests' = [requests EXCEPT
                                 ![r].pc = "saving",
                                 ![r].local = Some(ReAttachResponse(locked, req, order))]
    /\ rwlock' = Some(r)
    /\ UNCHANGED <<pageserver, returned, issued, arrivals, state_file, service,
                   starts, overflow_checks>>

\* lines 167-175: generation += 1 overflows and panics within the loop; the
\* tenants the loop has passed keep their new generation, the lock is
\* dropped, the request gets no response
ReAttachPanics(r) ==
    /\ service = "serving"
    /\ overflow_checks
    /\ requests[r].pc = "parsed"
    /\ requests[r].kind = "re_attach"
    /\ write_granted(rwlock)
    /\ LET req == Unwrap(requests[r].req)
       IN  \E order \in IterationOrders(DOMAIN tenants) :
              /\ Overflowing(tenants, req, order) # {}
              /\ LET first == CHOOSE i \in Overflowing(tenants, req, order) :
                                 \A j \in Overflowing(tenants, req, order) : i <= j
                 IN  tenants' = re_attach_until(tenants, req, order, first)
    /\ Respond(r, Panicked)
    /\ UNCHANGED <<pageserver, rwlock, arrivals, state_file, service, starts, overflow_checks>>

\* lines 184-187: save returns, the handler answers and drops the lock
ReAttachReturn(r) ==
    /\ service = "serving"
    /\ requests[r].pc = "saving"
    /\ requests[r].kind = "re_attach"
    /\ \E ok \in BOOLEAN :
          /\ Saved(ok)
          /\ Respond(r, IF ok THEN Ok(Unwrap(requests[r].local))
                        ELSE InternalServerError)
    /\ rwlock' = NoneOpt
    /\ UNCHANGED <<pageserver, tenants, arrivals, service, starts,
                   overflow_checks>>

\* lines 194-217: handle_validate under the read lock
Validate(r) ==
    /\ service = "serving"
    /\ requests[r].pc = "parsed"
    /\ requests[r].kind = "validate"
    /\ read_granted(rwlock)
    /\ Respond(r, Ok(validate(tenants, Unwrap(requests[r].req))))
    /\ UNCHANGED <<pageserver, tenants, rwlock, arrivals, state_file, service,
                   starts, overflow_checks>>

\* lines 279-288: handle_inspect under the write lock
Inspect(r) ==
    /\ service = "serving"
    /\ requests[r].pc = "parsed"
    /\ requests[r].kind = "inspect"
    /\ write_granted(rwlock)
    /\ Respond(r, Ok(inspect(tenants, Unwrap(requests[r].req))))
    /\ UNCHANGED <<pageserver, tenants, rwlock, arrivals, state_file, service,
                   starts, overflow_checks>>

\* lines 291-334: the process starts and ends; the router serves the four
\* handlers concurrently
NextAttach ==
    \/ Start
    \/ Exit
    \/ \E r \in RequestIds :
          \/ Arrive(r)
          \/ AttachHookLocked(r)
          \/ AttachHookPanics(r)
          \/ AttachHookReturn(r)
          \/ ReAttachLocked(r)
          \/ ReAttachPanics(r)
          \/ ReAttachReturn(r)
          \/ Validate(r)
          \/ Inspect(r)

InitAttach ==
    /\ task_config = [max_usage_pct |-> 50, min_avail_bytes |-> 3,
                      eviction_order |-> AbsoluteAccessed]
    /\ tenant_conf = TenantConfs(NoneOpt, NoneOpt, {})
    /\ layer_conf = SpecLayers
    /\ timeline_conf = TimelineConfs(layer_conf, {})
    /\ resident = {"a", "b", "d"}
    /\ IdleTask
    /\ \E file \in InitFiles, checks \in BOOLEAN : AttachmentDown(file, checks)

SpecAttach == InitAttach /\ [][NextAttach]_vars

\* the handler of request r goes from one place to another in this step
Moves(r, kind, from, to) ==
    /\ service = "serving" /\ service' = "serving"
    /\ requests[r].kind = kind
    /\ requests[r].pc = from
    /\ requests'[r].pc = to

\* the handler of request r leaves the place in this step
Leaves(r, kind, from) ==
    /\ service = "serving" /\ service' = "serving"
    /\ requests[r].kind = kind
    /\ requests[r].pc = from
    /\ requests'[r].pc # from

\* generation g2 is one more than generation g
OneMore(g, g2) == g # U32_MAX /\ g2 = generation_incremented(g)

\* a < b on u32
u32_lt(a, b) == a # b /\ u32_le(a, b)

\* C37: an attach-hook request for tenant t with node_id = Some(n) sets t's
\* generation to one more than it was (0 for a tenant the service did not
\* know) and t's pageserver to n, and its response carries that generation;
\* with node_id = None it keeps t's generation, clears t's pageserver and
\* its response carries no generation; no other tenant changes.
C37_AttachHook ==
    [][\A r \in RequestIds :
          requests[r].kind = "attach_hook"
          => LET req == Unwrap(requests[r].req)
                 t == req.tenant_id
                 before == IF t \in DOMAIN tenants
                           THEN tenants[t].generation ELSE 0
             IN  /\ Leaves(r, "attach_hook", "parsed")
                      => /\ requests'[r].pc = "saving"
                         /\ DOMAIN tenants' = DOMAIN tenants \cup {t}
                         /\ \A u \in DOMAIN tenants \ {t} :
                               tenants'[u] = tenants[u]
                         /\ tenants'[t].pageserver = req.node_id
                         /\ IF IsSome(req.node_id)
                            THEN OneMore(before, tenants'[t].generation)
                            ELSE tenants'[t].generation = before
                 /\ Moves(r, "attach_hook", "saving", "idle")
                      => /\ tenants' = tenants
                         /\ tenants[t].pageserver = req.node_id
                         /\ LET response == Unwrap(returned').response
                            IN  response.status = 200
                                => response.body.gen =
                                      IF IsSome(req.node_id)
                                      THEN Some(tenants[t].generation)
                                      ELSE NoneOpt]_vars

\* C38: validate answers, for every requested tenant the service knows and
\* for no other, whether the requested generation is the tenant's current
\* generation; it changes no tenant and issues no generation.
C38_Validate ==
    [][\A r \in RequestIds :
          Leaves(r, "validate", "parsed")
          => LET asked == Unwrap(requests[r].req).tenants
                 response == Unwrap(returned').response
                 known == {i \in 1..Len(asked) :
                             asked[i].id.tenant_id \in DOMAIN tenants}
             IN  /\ response.status = 200
                 /\ Len(response.body.tenants) = Cardinality(known)
                 /\ \A i \in known :
                       LET t == asked[i].id.tenant_id
                           latest == asked[i].gen = tenants[t].generation
                       IN  \E j \in 1..Len(response.body.tenants) :
                              response.body.tenants[j] =
                                 [id |-> asked[i].id, valid |-> latest]
                 /\ tenants' = tenants
                 /\ state_file' = state_file
                 /\ issued' = issued]_vars

\* validate has answered for both tenants: invalid for generation 1 of
\* tenant A, which was loaded from the file with generation 1 and issued
\* generation 2 since, and valid for generation 1 of tenant B
C38_Witness ==
    /\ IsSome(returned)
    /\ Unwrap(returned).kind = "validate"
    /\ service = "serving"
    /\ LET answer == Unwrap(returned).response.body.tenants
       IN  /\ Len(answer) = 2
           /\ answer[1].id.tenant_id = "A" /\ ~answer[1].valid
           /\ answer[2].id.tenant_id = "B" /\ answer[2].valid
    /\ issued["A"] = <<2>>
    /\ issued["B"] = <<1>>
    /\ tenants["A"].generation = 2
    /\ tenants["B"].generation = 1

\* C39: a re-attach request of node n adds one to the generation of the
\* tenants whose pageserver is n and answers with exactly these tenants,
\* each with its new generation; no other tenant changes.
C39_ReAttach ==
    [][\A r \in RequestIds :
          requests[r].kind = "re_attach"
          => LET n == Unwrap(requests[r].req).node_id
                 mine == {t \in DOMAIN tenants : tenants[t].pageserver = Some(n)}
             IN  /\ Leaves(r, "re_attach", "parsed")
                      => /\ requests'[r].pc = "saving"
                         /\ DOMAIN tenants' = DOMAIN tenants
                         /\ \A t \in DOMAIN tenants :
                               IF t \in mine
                               THEN /\ tenants'[t].pageserver = Some(n)
                                    /\ OneMore(tenants[t].generation,
                                               tenants'[t].generation)
                               ELSE tenants'[t] = tenants[t]
                         /\ LET answer == Unwrap(requests'[r].local).tenants
                            IN  /\ Len(answer) = Cardinality(mine)
                                /\ {answer[i] : i \in 1..Len(answer)} =
                                      {[id  |-> [tenant_id |-> t, shard |-> "unsharded"],
                                        gen |-> tenants'[t].generation] : t \in mine}
                 /\ Moves(r, "re_attach", "saving", "idle")
                      => /\ tenants' = tenants
                         /\ LET response == Unwrap(returned').response
                            IN  response.status = 200
                                => response.body = Unwrap(requests[r].local)]_vars

\* C40: over every interleaving of the four kinds of requests the
\* generation of a tenant never decreases, and the generations returned for
\* a tenant are strictly increasing in the order of their return.
C40_GenerationsUnique ==
    /\ [](\A t \in TenantIds :
            \A i, j \in 1..Len(issued[t]) :
               i < j => u32_lt(issued[t][i], issued[t][j]))
    /\ [][service = "serving" /\ service' = "serving"
          => \A t \in DOMAIN tenants :
                /\ t \in DOMAIN tenants'
                /\ u32_le(tenants[t].generation, tenants'[t].generation)]_vars

====
